---- MODULE Spec2Model ----
(***************************************************************************)
(* The asynchronous provisioning pipeline of n8n-manager: the HTTP intake  *)
(* (routes.py), the Redis job store (job_status.py), the RabbitMQ queue    *)
(* (queue.py), the single worker (worker.py) and the SSE / polling         *)
(* followers (routes.py), over the container runtime (n8n.py).             *)
(***************************************************************************)
EXTENDS Integers, Sequences, FiniteSets, TLC

(* ------------------------------------------------------------------ *)
(* Bounds of the model                                                 *)
(* ------------------------------------------------------------------ *)

\* job ids handed out by uuid.uuid4() are modelled as 1..MaxJobs
MaxJobs == 2
\* broker connection losses injected in one behaviour
MaxFaults == 1
\* iterations of the readiness loop (range(60) in the worker)
ReadinessAttempts == 1
\* first iteration with the HTTP fallback (i >= 15 in the worker)
HttpFallbackFrom == 0
\* the HTTP fallback runs every n-th iteration (i % 5 == 0 in the worker)
HttpFallbackEvery == 1
\* calls of GET /job/{job_id}/events made by the polling client
MaxPolls == 2
\* largest first "since" the polling client starts from
MaxSince == 1
\* keys handed out by generate_encryption_key in the HTTP routes
MaxKeys == 3
\* days the clock runs
MaxDays == 2
\* CLEANUP_MAX_AGE_DAYS (from the environment, 5 by default), scaled to the clock
MaxAgeDays == 1
\* SSE_MAX_DURATION (300 s in config.py) counted in sleeps of the follower
MaxDurationTicks == 1

(* ------------------------------------------------------------------ *)
(* Program constants                                                   *)
(* ------------------------------------------------------------------ *)

JOB_TTL == 600
JOB_CLEANUP_TTL == 300
RESERVED_RAM_MB == 768
PER_INSTANCE_RAM_MB == 384
MiB == 1048576

QUEUE_NAME == "instance_creation"
DEFAULT_N8N_VERSION == <<"1", ".", "1", ".", "2">>
Latest == <<"l", "a", "t", "e", "s", "t">>

(* ------------------------------------------------------------------ *)
(* Inputs                                                              *)
(* ------------------------------------------------------------------ *)

\* names as sequences of characters, as a client may send them
RawNames == { <<"A", "1">>, <<"b", "b">>, <<"b", "-">> }
\* versions as sequences of characters
RawVersions == { Latest, <<"2", ".", "0", ".", "0">> }
Locations == { "vinhedo" }
\* MemTotal values around the reserve and around the multiples of the RAM of
\* one instance, for GET /capacity
CapacityMemTotals ==
    { 0, 512 * MiB, 768 * MiB - 1, 768 * MiB, 768 * MiB + 1, 1152 * MiB - 1, 1152 * MiB,
      1536 * MiB - 1, 1536 * MiB, 1920 * MiB + 1 }

\* MemTotal of the host in bytes (docker info): 1 GiB, room for one instance
MemTotals == { 1024 * MiB }

LowerChars == { "a", "b" }
UpperChars == { "A", "B" }
DigitChars == { "0", "1", "2" }

(* ------------------------------------------------------------------ *)
(* n8n.py: validation and capacity                                     *)
(* ------------------------------------------------------------------ *)

lower(c) ==
    IF c = "A" THEN "a" ELSE IF c = "B" THEN "b" ELSE c

RECURSIVE lstrip(_)
lstrip(s) ==
    IF s # <<>> /\ Head(s) = " " THEN lstrip(Tail(s)) ELSE s

RECURSIVE rstrip(_)
rstrip(s) ==
    IF s # <<>> /\ s[Len(s)] = " " THEN rstrip(SubSeq(s, 1, Len(s) - 1)) ELSE s

strip(s) == rstrip(lstrip(s))

\* name.lower().strip()
normalize_name(name) == strip([i \in 1..Len(name) |-> lower(name[i])])

\* _VALID_NAME = ^[a-z0-9][a-z0-9\-]{0,30}[a-z0-9]$
VALID_NAME(s) ==
    /\ Len(s) >= 2
    /\ Len(s) <= 32
    /\ s[1] \in LowerChars \cup DigitChars
    /\ s[Len(s)] \in LowerChars \cup DigitChars
    /\ \A i \in 2..(Len(s) - 1) : s[i] \in LowerChars \cup DigitChars \cup {"-"}

\* _VALID_VERSION = ^(latest|1\.\d{1,3}\.\d{1,3})$
VALID_VERSION(s) ==
    \/ s = Latest
    \/ /\ Len(s) >= 5
       /\ s[1] = "1"
       /\ s[2] = "."
       /\ \E d \in 4..(Len(s) - 1) :
            /\ s[d] = "."
            /\ d - 3 \in 1..3
            /\ Len(s) - d \in 1..3
            /\ \A i \in (3..(d - 1)) \cup ((d + 1)..Len(s)) : s[i] \in DigitChars

\* the result standing for a raised ValueError (no valid name or version is empty)
Invalid == <<>>

\* validate_instance_name: the normalised name, or Invalid for ValueError
validate_instance_name(name) ==
    LET n == normalize_name(name)
    IN IF n = <<>> \/ ~VALID_NAME(n) THEN Invalid ELSE n

\* validate_version: the stripped version, or Invalid for ValueError
validate_version(version) ==
    LET v == strip(version)
    IN IF ~VALID_VERSION(v) THEN Invalid ELSE v

\* the names an instance can have in this model
Names == { validate_instance_name(r) : r \in RawNames } \ { Invalid }

container_name(instance_name) == <<"n8n-", instance_name>>

instance_url(instance_name) == <<"url", instance_name>>

\* int(x / y) of Python: truncation towards zero
TruncDiv(a, b) ==
    IF a >= 0 THEN a \div b ELSE -((-a) \div b)

Max(a, b) == IF a >= b THEN a ELSE b

NoContainer == [status |-> "absent", by |-> 0]

\* the environments the service can be deployed with (PROTOCOL, DEFAULT_TIMEZONE,
\* API_AUTH_TOKEN)
Configs ==
    { [PROTOCOL |-> "https", DEFAULT_TIMEZONE |-> "America/Sao_Paulo", API_AUTH_TOKEN |-> <<"t">>],
      [PROTOCOL |-> "https", DEFAULT_TIMEZONE |-> "UTC", API_AUTH_TOKEN |-> <<"t">>] }

\* the environment of the first start
DefaultConfig ==
    [PROTOCOL |-> "https", DEFAULT_TIMEZONE |-> "America/Sao_Paulo", API_AUTH_TOKEN |-> <<"t">>]

\* build_env: the variables that depend on the name, the key or the
\* configuration, and one of the fixed ones
build_env(cfg, name, encryption_key) ==
    [ N8N_PROTOCOL |-> cfg.PROTOCOL,
      N8N_EDITOR_BASE_URL |-> << cfg.PROTOCOL, name >>,
      N8N_ENCRYPTION_KEY |-> encryption_key,
      GENERIC_TIMEZONE |-> cfg.DEFAULT_TIMEZONE,
      N8N_LOG_LEVEL |-> "warn" ]

NoVolume == 0

\* containers.run with volumes={"n8n-data-<name>": ...}: the named volume is
\* created when it does not exist, and used as it is when it does
Mount(vols, name, encryption_key) ==
    [vols EXCEPT ![name] = IF @ = NoVolume THEN encryption_key ELSE @]

\* volumes.get("n8n-data-<name>").remove(force=True), or its logged failure
Unmount(vols, name, vol_removed) ==
    IF vol_removed THEN [vols EXCEPT ![name] = NoVolume] ELSE vols

\* a container as containers.run leaves it: image tag, environment and the
\* label app.created_at of build_traefik_labels
Container(status, by, version, env, created_at) ==
    [ status |-> status, by |-> by, version |-> version, env |-> env,
      created_at |-> created_at ]

\* max_instances without the lower limit of one
max_instances_unclamped(mem) ==
    TruncDiv(mem - RESERVED_RAM_MB * MiB, PER_INSTANCE_RAM_MB * MiB)

\* max(1, int(available_ram / PER_INSTANCE_RAM_MB)), in bytes to stay in integers
max_instances(mem) ==
    Max(1, TruncDiv(mem - RESERVED_RAM_MB * MiB, PER_INSTANCE_RAM_MB * MiB))

\* len([c for c in current if c["status"] == "running"])
active_count(cs) ==
    Cardinality({ n \in DOMAIN cs : cs[n].status = "running" })

calculate_max_instances(mem, cs) ==
    [ max_instances |-> max_instances(mem),
      active_instances |-> active_count(cs),
      can_create |-> active_count(cs) < max_instances(mem) ]

(* ------------------------------------------------------------------ *)
(* job_status.py: the job store                                        *)
(* ------------------------------------------------------------------ *)

JobIds == 1..MaxJobs

\* json.dumps / json.loads: a value and its text are different things
dumps(v) == <<"json", v>>
loads(s) == s[2]

\* r.get(key) of a missing key
Missing == "nil"

\* LRANGE key start stop, with Redis' negative indexes and clamping
LRange(list, start, stop) ==
    LET n == Len(list)
        s0 == IF start < 0 THEN Max(0, n + start) ELSE start
        e0 == IF stop < 0 THEN n + stop ELSE stop
        e1 == IF e0 >= n THEN n - 1 ELSE e0
    IN IF s0 > e1 \/ s0 >= n THEN <<>> ELSE SubSeq(list, s0 + 1, e1 + 1)

Terminal == { "complete", "error" }

IsTerminal(ev) == ev.status \in Terminal

Info(message) == [status |-> "info", message |-> message]

Error(message) == [status |-> "error", message |-> message]

Complete(name) ==
    [ status |-> "complete", message |-> <<"created">>, instance_id |-> name,
      url |-> instance_url(name), location |-> "vinhedo", container_status |-> "running" ]

(* ------------------------------------------------------------------ *)
(* auth.py: the Bearer token dependency of the protected routes        *)
(* ------------------------------------------------------------------ *)

Bearer == <<"B", "e", "a", "r", "e", "r", " ">>

\* str.startswith
startswith(s, prefix) ==
    /\ Len(s) >= Len(prefix)
    /\ SubSeq(s, 1, Len(prefix)) = prefix

\* str.removeprefix
removeprefix(s, prefix) ==
    IF startswith(s, prefix) THEN SubSeq(s, Len(prefix) + 1, Len(s)) ELSE s

\* the values of the Authorization header a client sends; <<>> is the default
\* of request.headers.get("Authorization", "")
Headers ==
    { <<>>,
      <<"t">>,
      <<"B", "e", "a", "r", "e", "r", "t">>,
      <<"b", "e", "a", "r", "e", "r", " ", "t">>,
      Bearer,
      Bearer \o <<"t">>,
      Bearer \o <<" ", "t", " ">>,
      Bearer \o <<"x">>,
      Bearer \o <<"t", "x">> }

\* the tokens the service is configured with; <<>>: API_AUTH_TOKEN is not set
Tokens == { <<>>, <<"t">> }

AuthOutcomes == { "token_not_configured", "token_missing", "token_invalid" }

\* verify_token without the check of line 9
verify_token_FailOpen(API_AUTH_TOKEN, auth) ==
    IF ~startswith(auth, Bearer) THEN "token_missing"
    ELSE IF strip(removeprefix(auth, Bearer)) # API_AUTH_TOKEN THEN "token_invalid"
    ELSE "ok"

\* verify_token: the HTTPException it raises, or "ok" when it returns the token
verify_token(API_AUTH_TOKEN, auth) ==
    IF API_AUTH_TOKEN = <<>> THEN "token_not_configured"
    ELSE IF ~startswith(auth, Bearer) THEN "token_missing"
    ELSE IF strip(removeprefix(auth, Bearer)) # API_AUTH_TOKEN THEN "token_invalid"
    ELSE "ok"

\* the status code of the HTTPException
AuthCode(outcome) ==
    IF outcome = "token_not_configured" THEN 500
    ELSE IF outcome = "token_missing" THEN 401
    ELSE 403

\* the routes of the model: GET /health, POST /create-instance, DELETE
\* /delete-instance/{instance_id}, GET /capacity
Routes == { "health", "create_instance", "delete_instance", "get_capacity" }

NoRequest == [route |-> "none", Authorization |-> <<>>]

(* ------------------------------------------------------------------ *)
(* main.py: lifespan                                                   *)
(* ------------------------------------------------------------------ *)

\* lifespan with the worker thread started before the reconcile
lifespan_calls_WorkerFirst ==
    << "setup_logging", "bootstrap_infra", "start_worker", "sync_instance_env_vars",
       "start_cleanup", "yield",
       "stop_cleanup", "stop_worker", "close_rabbitmq", "close_client" >>

\* the statements of lifespan, in the order of the source; at the yield the
\* server takes requests, and it resumes the function when it shuts down
lifespan_calls ==
    << "setup_logging", "bootstrap_infra", "sync_instance_env_vars", "start_worker",
       "start_cleanup", "yield",
       "stop_cleanup", "stop_worker", "close_rabbitmq", "close_client" >>

\* lifespan suspended at its yield
AtYield == SubSeq(lifespan_calls, 1, 6)

(* ------------------------------------------------------------------ *)
(* infra.py: bootstrap_infra                                           *)
(* ------------------------------------------------------------------ *)

\* the labels of the list bootstrap_infra iterates over (lines 527-535)
BootstrapSteps ==
    << "network", "traefik", "redis", "rabbitmq", "parser-api", "fallback", "image-pull" >>

BootstrapLabels == { BootstrapSteps[k] : k \in 1..Len(BootstrapSteps) }

\* ran: the steps called, logged: the labels of logger.error, raised: an
\* exception left bootstrap_infra
NoBootstrap == [ran |-> <<>>, logged |-> <<>>, raised |-> FALSE]

\* the loop with fn() outside a try: the first error leaves the function
RECURSIVE bootstrap_loop_NoTry(_, _, _)
bootstrap_loop_NoTry(k, failing, acc) ==
    IF k > Len(BootstrapSteps)
    THEN acc
    ELSE IF BootstrapSteps[k] \in failing
         THEN [acc EXCEPT !.ran = Append(@, BootstrapSteps[k]), !.raised = TRUE]
         ELSE bootstrap_loop_NoTry(k + 1, failing,
                  [acc EXCEPT !.ran = Append(@, BootstrapSteps[k])])

\* lines 527-539, from the k-th step on: fn() is called; an Exception it raises
\* is logged with the label and the loop goes on. failing: the steps that raise.
RECURSIVE bootstrap_loop(_, _, _)
bootstrap_loop(k, failing, acc) ==
    IF k > Len(BootstrapSteps)
    THEN acc
    ELSE bootstrap_loop(k + 1, failing,
             [acc EXCEPT !.ran = Append(@, BootstrapSteps[k]),
                         !.logged = IF BootstrapSteps[k] \in failing
                                    THEN Append(@, BootstrapSteps[k]) ELSE @])

bootstrap_infra(failing) == bootstrap_loop(1, failing, NoBootstrap)

VARIABLES
    memTotal,     \* docker info()["MemTotal"]
    config,       \* the environment the service process was started with (config.py)
    now,          \* datetime.now(timezone.utc), in days
    request,      \* the HTTP request in service: its route and Authorization header
    lifespan,     \* the statements of lifespan (main.py) executed so far
    sweeper,      \* the thread of start_cleanup: its position in _cleanup_loop
    infra,        \* the last run of bootstrap_infra: steps run, errors logged
    publisher,    \* queue.py: _connection, _channel, _lock and the threads in it
    volumes,      \* container runtime: instance name -> the data of the volume
                  \* n8n-data-<name>: the key of the container that initialised it
    nextKey,      \* the next value secrets.token_hex(32) hands out
    containers,   \* container runtime: instance name -> container
    state,        \* Redis job:<id>:state, Missing when the key does not exist
    events,       \* Redis job:<id>:events, <<>> when the key does not exist
    stateTtl,     \* TTL last set on job:<id>:state, 0 when the key does not exist
    eventsTtl,    \* TTL last set on job:<id>:events, 0 when the key does not exist
    nextJob,      \* the next job id uuid4 hands out
    queue,        \* broker: ready messages of instance_creation, oldest first
    unacked,      \* broker: the message delivered to the consumer and not acked
    conn,         \* the worker's broker connection: "up" or "down"
    faults,       \* connection losses so far
    worker,       \* the worker thread: position in _consume_loop / _process_job
    resp,         \* the last response of an intake route
    fol,          \* the SSE follower of create_instance_stream
    poll          \* the client polling GET /job/{job_id}/events

vars == << memTotal, config, now, request, lifespan, sweeper, infra, publisher, volumes, nextKey, containers, state, events, stateTtl, eventsTtl, nextJob,
           queue, unacked, conn, faults, worker, resp, fol, poll >>

threadVars == << sweeper, infra, publisher >>
envVars == << memTotal, config, now, request, lifespan, threadVars >>
hostVars == << envVars, volumes, nextKey >>
storeVars == << state, events, stateTtl, eventsTtl >>
brokerVars == << queue, unacked, conn, faults >>

\* init_job: r.set(state key, "pending", ex=JOB_TTL)
init_job(job_id) ==
    /\ state' = [state EXCEPT ![job_id] = "pending"]
    /\ stateTtl' = [stateTtl EXCEPT ![job_id] = JOB_TTL]

\* set_state: r.set(state key, state, ex=JOB_TTL)
set_state(job_id, s) ==
    /\ state' = [state EXCEPT ![job_id] = s]
    /\ stateTtl' = [stateTtl EXCEPT ![job_id] = JOB_TTL]

\* get_state: r.get(state key) or "unknown"
get_state(job_id) ==
    IF state[job_id] = Missing THEN "unknown" ELSE state[job_id]

\* push_event: r.rpush(events key, json.dumps(event)); r.expire(events key, JOB_TTL)
push_event(job_id, event) ==
    /\ events' = [events EXCEPT ![job_id] = Append(@, dumps(event))]
    /\ eventsTtl' = [eventsTtl EXCEPT ![job_id] = JOB_TTL]

\* get_events_since reading from one element after the index
get_events_since_skip_one(job_id, index) ==
    LET raw == LRange(events[job_id], index + 1, -1)
    IN [i \in 1..Len(raw) |-> loads(raw[i])]

\* get_events_since: [json.loads(item) for item in r.lrange(events key, index, -1)]
get_events_since(job_id, index) ==
    LET raw == LRange(events[job_id], index, -1)
    IN [i \in 1..Len(raw) |-> loads(raw[i])]

\* cleanup_job: r.expire of both keys; EXPIRE of a missing key does nothing
cleanup_job(job_id) ==
    /\ eventsTtl' = [eventsTtl EXCEPT ![job_id] = IF events[job_id] = <<>> THEN 0 ELSE JOB_CLEANUP_TTL]
    /\ stateTtl' = [stateTtl EXCEPT ![job_id] = IF state[job_id] = Missing THEN 0 ELSE JOB_CLEANUP_TTL]

\* the decoded event list of a job
Events(job_id) == [i \in 1..Len(events[job_id]) |-> loads(events[job_id][i])]

TerminalCount(job_id) ==
    Cardinality({ i \in 1..Len(events[job_id]) : IsTerminal(Events(job_id)[i]) })

(* ------------------------------------------------------------------ *)
(* queue.py and the broker                                             *)
(* ------------------------------------------------------------------ *)

NoMessage == <<>>

\* publish_job: basic_publish(body=json.dumps(payload)) on the durable queue
publish_job(job_id, payload) ==
    queue' = Append(queue, dumps(payload))

Payload(job_id, name, version, location) ==
    [job_id |-> job_id, name |-> name, version |-> version, location |-> location]

\* the payloads the broker still holds (ready or delivered and not acked)
Held ==
    { loads(queue[i]) : i \in 1..Len(queue) }
        \cup (IF unacked = NoMessage THEN {} ELSE { loads(unacked) })

(* ------------------------------------------------------------------ *)
(* worker.py: _consume_loop and _process_job                           *)
(* ------------------------------------------------------------------ *)

NoJob == [job_id |-> 0]

\* acks: the calls of basic_ack made so far for the delivery in hand
Idle == [pc |-> "idle", job |-> NoJob, i |-> 0, err |-> <<>>, acks |-> 0]

At(pc) == worker.pc = pc

Goto(pc) == worker' = [worker EXCEPT !.pc = pc]

\* the container the worker's handle ct refers to is still there
CtAlive ==
    /\ containers[worker.job.name].status # "absent"
    /\ containers[worker.job.name].by = worker.job.job_id

\* Deliver of the newest ready message
Deliver_Newest ==
    /\ At("idle")
    /\ conn = "up"
    /\ unacked = NoMessage
    /\ queue # <<>>
    /\ unacked' = queue[Len(queue)]
    /\ queue' = SubSeq(queue, 1, Len(queue) - 1)
    /\ worker' = [Idle EXCEPT !.pc = "set_running", !.job = loads(queue[Len(queue)])]
    /\ UNCHANGED << hostVars, containers, storeVars, nextJob, conn, faults, resp, fol, poll >>

\* basic_consume with prefetch_count=1: the oldest ready message is delivered
\* to _process_job, which decodes it (lines 38-43)
Deliver ==
    /\ At("idle")
    /\ conn = "up"
    /\ unacked = NoMessage
    /\ queue # <<>>
    /\ unacked' = Head(queue)
    /\ queue' = Tail(queue)
    /\ worker' = [Idle EXCEPT !.pc = "set_running", !.job = loads(Head(queue))]
    /\ UNCHANGED << hostVars, containers, storeVars, nextJob, conn, faults, resp, fol, poll >>

\* line 44: set_state(job_id, "running")
W_SetRunning ==
    /\ At("set_running")
    /\ set_state(worker.job.job_id, "running")
    /\ Goto("check_dup")
    /\ UNCHANGED << hostVars, containers, events, eventsTtl, nextJob, brokerVars, resp, fol, poll >>

\* W_CheckDup without the guard of lines 48-53
W_CheckDup_NoGuard ==
    /\ At("check_dup")
    /\ Goto("push_pulling")
    /\ UNCHANGED << hostVars, containers, storeVars, nextJob, brokerVars, resp, fol, poll >>

\* lines 48-57: get_container(name); found: error exit, NotFound: go on
W_CheckDup ==
    /\ At("check_dup")
    /\ IF containers[worker.job.name].status # "absent"
       THEN worker' = [worker EXCEPT !.pc = "err_push", !.err = <<"exists">>]
       ELSE Goto("push_pulling")
    /\ UNCHANGED << hostVars, containers, storeVars, nextJob, brokerVars, resp, fol, poll >>

\* the info events of _process_job: position -> << message, next position >>
InfoSteps ==
    [ push_pulling     |-> << <<"pulling">>, "pull" >>,
      push_image_ready |-> << <<"image_ready">>, "push_creating" >>,
      push_creating    |-> << <<"creating">>, "run" >>,
      push_created     |-> << <<"created_container">>, "push_waiting" >>,
      push_waiting     |-> << <<"waiting">>, "reload" >>,
      push_checking    |-> << <<"checking", worker.i + 1>>, "probe" >>,
      push_http_ok     |-> << <<"http_ok">>, "push_ssl" >>,
      push_ssl         |-> << <<"ssl">>, "push_complete" >> ]

\* lines 61, 69, 72, 95, 98, 104, 121, 140: push_event(job_id, {"status": "info", ...})
W_PushInfo ==
    /\ worker.pc \in DOMAIN InfoSteps
    /\ push_event(worker.job.job_id, Info(InfoSteps[worker.pc][1]))
    /\ Goto(InfoSteps[worker.pc][2])
    /\ UNCHANGED << hostVars, containers, state, stateTtl, nextJob, brokerVars, resp, fol, poll >>

\* lines 62-68: images.pull; an exception is the error exit
W_Pull ==
    /\ At("pull")
    /\ \E ok \in BOOLEAN :
         IF ok THEN Goto("push_image_ready")
         ELSE worker' = [worker EXCEPT !.pc = "err_push", !.err = <<"pull_failed">>]
    /\ UNCHANGED << hostVars, containers, storeVars, nextJob, brokerVars, resp, fol, poll >>

\* lines 73-93: containers.run(detach=True); an exception is the error exit.
\* run is create + start: a failed start leaves the created container behind,
\* a name conflict leaves the container of the other creator.
W_Run ==
    /\ At("run")
    /\ LET n == worker.job.name
           j == worker.job.job_id
           failed == [worker EXCEPT !.pc = "err_push", !.err = <<"run_failed">>]
           made(status) == Container(status, j, worker.job.version,
                                     build_env(config, n, nextKey), now)
       IN IF containers[n].status # "absent"
          THEN /\ worker' = failed
               /\ UNCHANGED containers
          ELSE \/ /\ containers' = [containers EXCEPT ![n] = made("running")]
                  /\ Goto("push_created")
               \/ /\ containers' = [containers EXCEPT ![n] = made("created")]
                  /\ worker' = failed
               \/ /\ UNCHANGED containers
                  /\ worker' = failed
    /\ volumes' = IF containers' # containers
                  THEN Mount(volumes, worker.job.name, nextKey) ELSE volumes
    /\ nextKey' = IF containers' # containers THEN nextKey + 1 ELSE nextKey
    /\ UNCHANGED << envVars, storeVars, nextJob, brokerVars, resp, fol, poll >>

\* after iteration i of the readiness loop: the next iteration, or the loop's end
NextAttempt ==
    IF worker.i + 1 < ReadinessAttempts
    THEN [worker EXCEPT !.pc = "reload", !.i = @ + 1]
    ELSE [worker EXCEPT !.pc = "timeout_logs"]

\* lines 100-104, 125: time.sleep(2); ct.reload(); branch on ct.status.
\* reload of a removed container raises NotFound into the catch-all.
W_Reload ==
    /\ At("reload")
    /\ IF ~CtAlive THEN Goto("exc_push")
       ELSE IF containers[worker.job.name].status = "running" THEN Goto("push_checking")
       ELSE IF containers[worker.job.name].status = "exited" THEN Goto("exited_logs")
       ELSE worker' = NextAttempt
    /\ UNCHANGED << hostVars, containers, storeVars, nextJob, brokerVars, resp, fol, poll >>

\* lines 105-124: the log check (its exceptions are swallowed), then on the
\* iterations i >= 15 with i % 5 == 0 the HTTP check of /healthz
W_Probe ==
    /\ At("probe")
    /\ \/ /\ CtAlive
          /\ Goto("push_ssl")
       \/ /\ worker.i >= HttpFallbackFrom
          /\ worker.i % HttpFallbackEvery = 0
          /\ containers[worker.job.name].status = "running"
          /\ Goto("push_http_ok")
       \/ worker' = NextAttempt
    /\ UNCHANGED << hostVars, containers, storeVars, nextJob, brokerVars, resp, fol, poll >>

\* lines 126-127: ct.logs(tail=30) of the exited container, then the error exit
W_ExitedLogs ==
    /\ At("exited_logs")
    /\ IF CtAlive
       THEN worker' = [worker EXCEPT !.pc = "err_push", !.err = <<"exited">>]
       ELSE Goto("exc_push")
    /\ UNCHANGED << hostVars, containers, storeVars, nextJob, brokerVars, resp, fol, poll >>

\* W_TimeoutLogs followed by the removal of the container
W_TimeoutLogs_Removes ==
    /\ At("timeout_logs")
    /\ IF CtAlive
       THEN /\ worker' = [worker EXCEPT !.pc = "err_push", !.err = <<"timeout">>]
            /\ containers' = [containers EXCEPT ![worker.job.name] = NoContainer]
       ELSE /\ Goto("exc_push")
            /\ UNCHANGED containers
    /\ UNCHANGED << hostVars, storeVars, nextJob, brokerVars, resp, fol, poll >>

\* lines 132-134: not ready after the loop: ct.logs(tail=30), then the error exit
W_TimeoutLogs ==
    /\ At("timeout_logs")
    /\ IF CtAlive
       THEN worker' = [worker EXCEPT !.pc = "err_push", !.err = <<"timeout">>]
       ELSE Goto("exc_push")
    /\ UNCHANGED << hostVars, containers, storeVars, nextJob, brokerVars, resp, fol, poll >>

\* lines 50, 65, 90, 127, 134: push_event(job_id, {"status": "error", ...})
W_ErrPush ==
    /\ At("err_push")
    /\ push_event(worker.job.job_id, Error(worker.err))
    /\ Goto("err_state")
    /\ UNCHANGED << hostVars, containers, state, stateTtl, nextJob, brokerVars, resp, fol, poll >>

\* lines 51, 66, 91, 128, 135: set_state(job_id, "error")
W_ErrState ==
    /\ At("err_state")
    /\ set_state(worker.job.job_id, "error")
    /\ Goto("err_ack")
    /\ UNCHANGED << hostVars, containers, events, eventsTtl, nextJob, brokerVars, resp, fol, poll >>

\* basic_ack on the worker's channel: the broker drops the delivered message
basic_ack ==
    unacked' = NoMessage

\* lines 52-53, 67-68, 92-93, 129-130, 136-137: basic_ack inside the try, return.
\* On a lost connection basic_ack raises into the catch-all of line 155.
W_ErrAck ==
    /\ At("err_ack")
    /\ IF conn = "up"
       THEN /\ basic_ack
            /\ worker' = Idle
       ELSE /\ worker' = [worker EXCEPT !.pc = "exc_push", !.acks = @ + 1]
            /\ UNCHANGED unacked
    /\ UNCHANGED << hostVars, containers, storeVars, nextJob, queue, conn, faults, resp, fol, poll >>

\* lines 144-151: push_event(job_id, {"status": "complete", ...})
W_PushComplete ==
    /\ At("push_complete")
    /\ push_event(worker.job.job_id, Complete(worker.job.name))
    /\ Goto("set_complete")
    /\ UNCHANGED << hostVars, containers, state, stateTtl, nextJob, brokerVars, resp, fol, poll >>

\* line 152: set_state(job_id, "complete")
W_SetComplete ==
    /\ At("set_complete")
    /\ set_state(worker.job.job_id, "complete")
    /\ Goto("final_ack")
    /\ UNCHANGED << hostVars, containers, events, eventsTtl, nextJob, brokerVars, resp, fol, poll >>

\* line 156: the catch-all: push_event(job_id, {"status": "error", "Erro inesperado"})
W_ExcPush ==
    /\ At("exc_push")
    /\ push_event(worker.job.job_id, Error(<<"unexpected">>))
    /\ Goto("exc_state")
    /\ UNCHANGED << hostVars, containers, state, stateTtl, nextJob, brokerVars, resp, fol, poll >>

\* line 157: set_state(job_id, "error")
W_ExcState ==
    /\ At("exc_state")
    /\ set_state(worker.job.job_id, "error")
    /\ Goto("final_ack")
    /\ UNCHANGED << hostVars, containers, events, eventsTtl, nextJob, brokerVars, resp, fol, poll >>

\* W_FinalAck without the basic_ack of line 160
W_FinalAck_NoAck ==
    /\ At("final_ack")
    /\ worker' = Idle
    /\ UNCHANGED << hostVars, containers, storeVars, nextJob, brokerVars, resp, fol, poll >>

\* line 160: basic_ack outside the try. On a lost connection it raises out of
\* _process_job into _consume_loop, which leaves the message unacknowledged.
W_FinalAck ==
    /\ At("final_ack")
    /\ IF conn = "up" THEN basic_ack ELSE UNCHANGED unacked
    /\ worker' = Idle
    /\ UNCHANGED << hostVars, containers, storeVars, nextJob, queue, conn, faults, resp, fol, poll >>

\* the transport to the broker is lost while a delivery is not acknowledged:
\* the broker returns the message to the head of the queue
Disconnect ==
    /\ conn = "up"
    /\ faults < MaxFaults
    /\ unacked # NoMessage
    /\ conn' = "down"
    /\ faults' = faults + 1
    /\ queue' = << unacked >> \o queue
    /\ unacked' = NoMessage
    /\ UNCHANGED << hostVars, containers, storeVars, nextJob, worker, resp, fol, poll >>

\* lines 165-192: _consume_loop catches the exception, sleeps and opens a new
\* connection and channel with prefetch_count=1
Reconnect ==
    /\ At("idle")
    /\ conn = "down"
    /\ conn' = "up"
    /\ UNCHANGED << hostVars, containers, storeVars, nextJob, queue, unacked, faults, worker, resp, fol, poll >>

WorkerStep ==
    \/ Deliver
    \/ W_SetRunning
    \/ W_CheckDup
    \/ W_PushInfo
    \/ W_Pull
    \/ W_Run
    \/ W_Reload
    \/ W_Probe
    \/ W_ExitedLogs
    \/ W_TimeoutLogs
    \/ W_ErrPush
    \/ W_ErrState
    \/ W_ErrAck
    \/ W_PushComplete
    \/ W_SetComplete
    \/ W_ExcPush
    \/ W_ExcState
    \/ W_FinalAck
    \/ Reconnect

(* ------------------------------------------------------------------ *)
(* routes.py: the intake routes                                        *)
(* ------------------------------------------------------------------ *)

Response(op, outcome, code) ==
    [op |-> op, outcome |-> outcome, code |-> code, tick |-> 1 - resp.tick]

Rejections == { "name_required", "invalid", "capacity", "duplicate" }

\* the checks shared by the intake routes, in the order of the code:
\* validation, capacity (calculate_max_instances), duplicate (get_container)
intake_check(name, version) ==
    IF validate_instance_name(name) = Invalid \/ validate_version(version) = Invalid
    THEN "invalid"
    ELSE IF ~calculate_max_instances(memTotal, containers).can_create
    THEN "capacity"
    ELSE IF containers[validate_instance_name(name)].status # "absent"
    THEN "duplicate"
    ELSE "ok"

\* lines 181-206 and 241-265: body.get("name", "").strip(), "Nome obrigatorio", the checks
body_check(raw, version) ==
    IF strip(raw) = <<>> THEN "name_required" ELSE intake_check(strip(raw), strip(version))

RejectCode(outcome) == IF outcome = "capacity" THEN 409 ELSE 400

\* enqueue_instance with init_job called before the checks
enqueue_instance_init_first(raw, version, location, published) ==
    LET check == body_check(raw, version)
        job_id == nextJob
    IN /\ nextJob <= MaxJobs
       /\ nextJob' = nextJob + 1
       /\ init_job(job_id)
       /\ IF check = "ok" /\ published
          THEN publish_job(job_id, Payload(job_id, validate_instance_name(strip(raw)),
                                           validate_version(strip(version)), location))
          ELSE UNCHANGED queue
       /\ UNCHANGED << hostVars, containers, events, eventsTtl, unacked, conn, faults, worker, fol, poll >>

\* POST /enqueue-instance with its inputs; published: basic_publish did not raise
enqueue_instance(raw, version, location, published) ==
    LET check == body_check(raw, version)
        job_id == nextJob
    IN IF check # "ok"
       THEN UNCHANGED << hostVars, containers, storeVars, nextJob, brokerVars, worker, fol, poll >>
       ELSE /\ nextJob <= MaxJobs
            /\ nextJob' = nextJob + 1
            /\ init_job(job_id)
            /\ IF published
               THEN publish_job(job_id, Payload(job_id, validate_instance_name(strip(raw)),
                                                validate_version(strip(version)), location))
               ELSE UNCHANGED queue
            /\ UNCHANGED << hostVars, containers, events, eventsTtl, unacked, conn, faults, worker, fol, poll >>

\* the response of POST /enqueue-instance
enqueue_instance_response(raw, version, published) ==
    LET check == body_check(raw, version)
    IN IF check # "ok" THEN Response("enqueue_instance", check, RejectCode(check))
       ELSE IF published THEN Response("enqueue_instance", "queued", 200)
       ELSE Response("enqueue_instance", "publish_failed", 500)

\* Python's None
None == -1

\* n8n.py create_container: images.pull, then containers.run with build_env and
\* build_traefik_labels; a created_at that is given replaces the label
create_container(name, version, encryption_key, created_at) ==
    /\ containers' = [containers EXCEPT ![name] =
           Container("running", 0, version, build_env(config, name, encryption_key),
                     IF created_at = None THEN now ELSE created_at)]
    /\ volumes' = Mount(volumes, name, encryption_key)

\* POST /create-instance with its inputs: the same checks, then create_container
\* in the request; created: neither pull nor run raised
create_instance(raw, version, created) ==
    LET check == body_check(raw, version)
    IN IF check # "ok"
       THEN UNCHANGED << hostVars, containers, storeVars, nextJob, brokerVars, worker, fol, poll >>
       ELSE /\ nextKey <= MaxKeys
            /\ nextKey' = nextKey + 1
            /\ IF created
               THEN create_container(validate_instance_name(strip(raw)),
                                     validate_version(strip(version)), nextKey, None)
               ELSE UNCHANGED << containers, volumes >>
            /\ UNCHANGED << envVars, storeVars, nextJob, brokerVars, worker, fol, poll >>

\* the response of POST /create-instance
create_instance_response(raw, version, created) ==
    LET check == body_check(raw, version)
    IN IF check # "ok" THEN Response("create_instance", check, RejectCode(check))
       ELSE IF created THEN Response("create_instance", "created", 200)
       ELSE Response("create_instance", "create_failed", 500)

\* elapsed: time.time() - start_time, in ticks
NoFollower ==
    [ pc |-> "none", job |-> 0, index |-> 0, batch |-> <<>>, frames |-> <<>>,
      elapsed |-> 0 ]

\* GET /create-instance-stream up to the return of the EventSourceResponse
create_instance_stream(raw, version, location, published) ==
    LET check == intake_check(raw, version)
        job_id == nextJob
    IN IF check # "ok"
       THEN UNCHANGED << hostVars, containers, storeVars, nextJob, brokerVars, worker, fol, poll >>
       ELSE /\ nextJob <= MaxJobs
            /\ fol.pc = "none"
            /\ nextJob' = nextJob + 1
            /\ init_job(job_id)
            /\ IF published
               THEN /\ publish_job(job_id, Payload(job_id, validate_instance_name(raw),
                                                   validate_version(version), location))
                    /\ fol' = [NoFollower EXCEPT !.pc = "poll", !.job = job_id]
               ELSE UNCHANGED << queue, fol >>
            /\ UNCHANGED << hostVars, containers, events, eventsTtl, unacked, conn, faults, worker, poll >>

\* the stream GET /create-instance-stream answers with: one error frame, or the follower
create_instance_stream_response(raw, version, published) ==
    LET check == intake_check(raw, version)
    IN IF check # "ok" THEN Response("create_instance_stream", check, 200)
       ELSE IF published THEN Response("create_instance_stream", "queued", 200)
       ELSE Response("create_instance_stream", "publish_failed", 200)

\* enqueue_instance_store with publish_job called before init_job
enqueue_instance_publish_first(raw, version, location, initialised, published) ==
    IF initialised \/ body_check(raw, version) # "ok"
    THEN enqueue_instance(raw, version, location, published)
    ELSE /\ nextJob <= MaxJobs
         /\ nextJob' = nextJob + 1
         /\ IF published
            THEN publish_job(nextJob, Payload(nextJob, validate_instance_name(strip(raw)),
                                              validate_version(strip(version)), location))
            ELSE UNCHANGED queue
         /\ UNCHANGED << hostVars, containers, storeVars, unacked, conn, faults, worker, fol, poll >>

\* POST /enqueue-instance over a job store that can fail; initialised: the
\* r.set of init_job did not raise. When it raises the handler ends there,
\* with the job id used up and publish_job not reached.
enqueue_instance_store(raw, version, location, initialised, published) ==
    IF initialised \/ body_check(raw, version) # "ok"
    THEN enqueue_instance(raw, version, location, published)
    ELSE /\ nextJob <= MaxJobs
         /\ nextJob' = nextJob + 1
         /\ UNCHANGED << hostVars, containers, storeVars, brokerVars, worker, fol, poll >>

\* GET /create-instance-stream over a job store that can fail
create_instance_stream_store(raw, version, location, initialised, published) ==
    IF initialised \/ intake_check(raw, version) # "ok"
    THEN create_instance_stream(raw, version, location, published)
    ELSE /\ nextJob <= MaxJobs
         /\ fol.pc = "none"
         /\ nextJob' = nextJob + 1
         /\ UNCHANGED << hostVars, containers, storeVars, brokerVars, worker, fol, poll >>

EnqueueInstanceStore ==
    \E raw \in RawNames, version \in RawVersions, location \in Locations,
       initialised \in BOOLEAN, published \in BOOLEAN :
        /\ enqueue_instance_store(raw, version, location, initialised, published)
        /\ UNCHANGED resp

CreateInstanceStreamStore ==
    \E raw \in RawNames, version \in RawVersions, location \in Locations,
       initialised \in BOOLEAN, published \in BOOLEAN :
        /\ create_instance_stream_store(raw, version, location, initialised, published)
        /\ UNCHANGED resp

\* the intake routes, for every input of the model
EnqueueInstance ==
    \E raw \in RawNames, version \in RawVersions, location \in Locations, published \in BOOLEAN :
        /\ enqueue_instance(raw, version, location, published)
        /\ UNCHANGED resp

CreateInstanceStream ==
    \E raw \in RawNames, version \in RawVersions, location \in Locations, published \in BOOLEAN :
        /\ create_instance_stream(raw, version, location, published)
        /\ UNCHANGED resp

\* the intake routes with the response handed to the client
EnqueueInstanceResp ==
    \E raw \in RawNames, version \in RawVersions, location \in Locations, published \in BOOLEAN :
        /\ enqueue_instance(raw, version, location, published)
        /\ resp' = enqueue_instance_response(raw, version, published)

CreateInstanceResp ==
    \E raw \in RawNames, version \in RawVersions, created \in BOOLEAN :
        /\ create_instance(raw, version, created)
        /\ resp' = create_instance_response(raw, version, created)

CreateInstanceStreamResp ==
    \E raw \in RawNames, version \in RawVersions, location \in Locations, published \in BOOLEAN :
        /\ create_instance_stream(raw, version, location, published)
        /\ resp' = create_instance_stream_response(raw, version, published)

NoTarget == <<>>

\* a response of an operation, with the instance it was about
OpResponse(op, outcome, code, target) ==
    [op |-> op, outcome |-> outcome, code |-> code, tick |-> 1 - resp.tick, target |-> target]

\* the instance ids a client may put in a path: the names and one that is
\* no valid name
InstanceIds == Names \cup { <<"B", "-">> }

\* get_container: containers.get("n8n-" + name); NoContainer stands for NotFound
get_container(name) ==
    IF name \in Names THEN containers[name] ELSE NoContainer

\* remove_container with the volume removed first and its exception not caught
remove_container_VolumeFirst(name, vol_removed) ==
    /\ containers' = [containers EXCEPT ![name] = IF vol_removed THEN NoContainer ELSE @]
    /\ volumes' = Unmount(volumes, name, vol_removed)

\* remove_container of a container that exists: container.remove(force=True,
\* v=True), then volumes.get and vol.remove, whose exceptions are only logged
\* (vol_removed = FALSE)
remove_container(name, vol_removed) ==
    /\ containers' = [containers EXCEPT ![name] = NoContainer]
    /\ volumes' = Unmount(volumes, name, vol_removed)

\* DELETE /delete-instance/{instance_id}: remove_container, 404 on NotFound
delete_instance(instance_id, vol_removed) ==
    /\ IF get_container(instance_id).status = "absent"
       THEN UNCHANGED << containers, volumes >>
       ELSE remove_container(instance_id, vol_removed)
    /\ UNCHANGED << envVars, nextKey, storeVars, nextJob, brokerVars, worker, fol, poll >>

delete_instance_response(instance_id) ==
    IF get_container(instance_id).status = "absent"
    THEN OpResponse("delete_instance", "not_found", 404, instance_id)
    ELSE OpResponse("delete_instance", "deleted", 200, instance_id)

DeleteInstance ==
    \E name \in Names, vol_removed \in BOOLEAN :
        /\ containers[name].status # "absent"
        /\ delete_instance(name, vol_removed)
        /\ UNCHANGED resp

(* ------------------------------------------------------------------ *)
(* routes.py and n8n.py: the operations on an instance                 *)
(* ------------------------------------------------------------------ *)

DeleteInstanceResp ==
    \E instance_id \in InstanceIds, vol_removed \in BOOLEAN :
        /\ delete_instance(instance_id, vol_removed)
        /\ resp' = delete_instance_response(instance_id)

\* GET /capacity: calculate_max_instances()
GetCapacity ==
    /\ resp' = OpResponse("get_capacity", "ok", 200,
                          calculate_max_instances(memTotal, containers))
    /\ UNCHANGED << hostVars, containers, storeVars, nextJob, brokerVars, worker, fol, poll >>

\* extract_encryption_key: the value of N8N_ENCRYPTION_KEY in Config.Env
extract_encryption_key(container) == container.env.N8N_ENCRYPTION_KEY

\* POST /instance/{instance_id}/restart: container.restart(timeout=15)
RestartInstance ==
    \E instance_id \in InstanceIds :
        /\ IF get_container(instance_id).status = "absent"
           THEN /\ UNCHANGED containers
                /\ resp' = OpResponse("restart_instance", "not_found", 404, instance_id)
           ELSE /\ containers' = [containers EXCEPT ![instance_id].status = "running"]
                /\ resp' = OpResponse("restart_instance", "restarted", 200, instance_id)
        /\ UNCHANGED << hostVars, storeVars, nextJob, brokerVars, worker, fol, poll >>

\* POST /instance/{instance_id}/reset: remove_container, generate_encryption_key,
\* create_container(instance_id, version, key). The version is body.get("version",
\* "latest") as it came; created: neither pull nor run raised.
reset_instance(instance_id, version, vol_removed, created) ==
    IF get_container(instance_id).status = "absent"
    THEN /\ UNCHANGED << hostVars, containers, storeVars, nextJob, brokerVars, worker, fol, poll >>
         /\ resp' = OpResponse("reset_instance", "not_found", 404, instance_id)
    ELSE /\ nextKey <= MaxKeys
         /\ nextKey' = nextKey + 1
         /\ IF created
            THEN /\ containers' = [containers EXCEPT ![instance_id] =
                        Container("running", 0, version,
                                  build_env(config, instance_id, nextKey), now)]
                 /\ volumes' = Mount(Unmount(volumes, instance_id, vol_removed),
                                     instance_id, nextKey)
                 /\ resp' = OpResponse("reset_instance", "reset", 200, instance_id)
            ELSE /\ remove_container(instance_id, vol_removed)
                 /\ resp' = OpResponse("reset_instance", "create_failed", 500, instance_id)
         /\ UNCHANGED << envVars, storeVars, nextJob, brokerVars, worker, fol, poll >>

\* Rebuilt with create_container called without created_at
Rebuilt_NewLabel(cfg, name, old, version) ==
    Container("running", 0, version,
              build_env(cfg, name, extract_encryption_key(old)), now)

\* rebuild_container: the container create_container makes from the old one:
\* the extracted key, the old label app.created_at, a new environment
Rebuilt(cfg, name, old, version) ==
    Container("running", 0, version,
              build_env(cfg, name, extract_encryption_key(old)),
              IF old.created_at = None THEN now ELSE old.created_at)

\* rebuild_container of a container that exists: old.remove(force=True), which
\* keeps the volume, then create_container; created: neither pull nor run raised
rebuild_container(instance_id, version, created) ==
    containers' = [containers EXCEPT ![instance_id] =
        IF created THEN Rebuilt(config, instance_id, @, version) ELSE NoContainer]

\* POST /instance/{instance_id}/update-version: rebuild_container with
\* body.get("version", "latest") as it came, 404 on NotFound
update_version(instance_id, new_version, created) ==
    /\ IF get_container(instance_id).status = "absent"
       THEN /\ UNCHANGED containers
            /\ resp' = OpResponse("update_version", "not_found", 404, instance_id)
       ELSE /\ rebuild_container(instance_id, new_version, created)
            /\ resp' = IF created
                       THEN OpResponse("update_version", "updated", 200, instance_id)
                       ELSE OpResponse("update_version", "create_failed", 500, instance_id)
    /\ UNCHANGED << hostVars, storeVars, nextJob, brokerVars, worker, fol, poll >>

UpdateVersion ==
    \E instance_id \in InstanceIds, new_version \in RawVersions, created \in BOOLEAN :
        update_version(instance_id, new_version, created)

\* needs_rebuild that compares the variable N8N_PROTOCOL only
needs_rebuild_ProtocolOnly(cfg, name, c) ==
    c.env.N8N_PROTOCOL # build_env(cfg, name, extract_encryption_key(c)).N8N_PROTOCOL

\* lines 268-277: some key of build_env(inst, key) differs from the container's
needs_rebuild(cfg, name, c) ==
    LET expected_env == build_env(cfg, name, extract_encryption_key(c))
    IN \E key \in DOMAIN expected_env : c.env[key] # expected_env[key]

\* sync_instance_env_vars, run once when the service starts (main.py) with the
\* configuration cfg of the new process: every listed container that needs it is
\* rebuilt with its own image tag; failed: the instances whose rebuild raised
\* after old.remove, which is logged; synced: the instances counted in the log
sync_instance_env_vars(cfg, failed) ==
    LET diverged == { n \in Names : /\ containers[n].status # "absent"
                                    /\ needs_rebuild(cfg, n, containers[n]) }
        synced == diverged \ failed
    IN
    /\ config' = cfg
    /\ containers' = [n \in Names |->
           IF n \in diverged
           THEN IF n \in failed THEN NoContainer
                ELSE Rebuilt(cfg, n, containers[n], containers[n].version)
           ELSE containers[n]]
    /\ resp' = OpResponse("sync_instance_env_vars", "done", 0, synced)
    /\ UNCHANGED << memTotal, now, request, publisher, volumes, nextKey, storeVars, nextJob, brokerVars, worker, fol, poll >>

Startup ==
    \E cfg \in Configs, failed \in SUBSET Names :
        /\ sync_instance_env_vars(cfg, failed)
        /\ UNCHANGED << lifespan, sweeper, infra >>

\* list_n8n_containers: age_days = (now - created_at).days
age_days(c) == IF c.created_at = None THEN None ELSE now - c.created_at

\* the names bound in the module cleanup.py: its imports and its definitions
cleanup_globals ==
    { "threading", "CLEANUP_INTERVAL_SECONDS", "CLEANUP_MAX_AGE_DAYS", "get_logger",
      "list_n8n_containers", "remove_container", "logger", "_stop_event",
      "_run_cleanup", "_cleanup_loop", "start_cleanup", "stop_cleanup" }

\* _run_cleanup as _cleanup_loop calls it: line 16 reads the names datetime and
\* timezone, and a NameError is caught and logged by the loop (lines 46-47);
\* then list_n8n_containers and remove_container of every instance of the age
\* a sweep that removes every listed instance, whatever its age
run_cleanup_NoAgeTest(listed, failed, vol_removed) ==
    LET removed == { n \in Names : containers[n].status # "absent" } \ failed
    IN /\ containers' = [n \in Names |->
              IF n \in removed THEN NoContainer ELSE containers[n]]
       /\ volumes' = [n \in Names |->
              IF n \in removed /\ vol_removed THEN NoVolume ELSE volumes[n]]
       /\ resp' = OpResponse("run_cleanup", "done", 0, removed)

\* listed: list_n8n_containers did not raise (an error goes to the loop as the
\* NameError does); failed: the instances whose remove_container raises, which
\* is caught and logged inside the for (lines 25-30)
run_cleanup(listed, failed, vol_removed) ==
    IF ~({ "datetime", "timezone" } \subseteq cleanup_globals)
    THEN /\ UNCHANGED << containers, volumes >>
         /\ resp' = OpResponse("run_cleanup", "NameError", 0, NoTarget)
    ELSE IF ~listed
    THEN /\ UNCHANGED << containers, volumes >>
         /\ resp' = OpResponse("run_cleanup", "Exception", 0, NoTarget)
    ELSE LET expired == { n \in Names : /\ containers[n].status # "absent"
                                        /\ age_days(containers[n]) # None
                                        /\ age_days(containers[n]) >= MaxAgeDays }
             removed == expired \ failed
         IN /\ containers' = [n \in Names |->
                   IF n \in removed THEN NoContainer ELSE containers[n]]
            /\ volumes' = [n \in Names |->
                   IF n \in removed /\ vol_removed THEN NoVolume ELSE volumes[n]]
            /\ resp' = OpResponse("run_cleanup", "done", 0, removed)

\* _cleanup_loop with _run_cleanup outside a try: an error ends the thread
cleanup_loop_NoTry(listed, failed, vol_removed) ==
    /\ sweeper = "waiting"
    /\ run_cleanup(listed, failed, vol_removed)
    /\ sweeper' = IF resp'.outcome = "done" THEN "waiting" ELSE "died"

\* lines 43-49, one turn of the while: _run_cleanup inside try / except
\* Exception, which logs, then _stop_event.wait(CLEANUP_INTERVAL_SECONDS)
cleanup_loop(listed, failed, vol_removed) ==
    /\ sweeper = "waiting"
    /\ run_cleanup(listed, failed, vol_removed)
    /\ sweeper' = "waiting"

\* one tick of _cleanup_loop
SweeperTick ==
    \E listed \in BOOLEAN, failed \in SUBSET Names, vol_removed \in BOOLEAN :
        /\ cleanup_loop(listed, failed, vol_removed)
        /\ UNCHANGED << memTotal, config, now, request, lifespan, infra, publisher, nextKey,
                        storeVars, nextJob, brokerVars, worker, fol, poll >>

\* the age written into the route /cleanup-preview (routes.py lines 136-137)
PreviewMaxAgeDays == 5

\* GET /cleanup-preview: every listed instance with will_be_deleted and
\* days_remaining computed from its age_days
cleanup_preview ==
    /\ resp' = OpResponse("cleanup_preview", "ok", 200,
           [n \in { m \in Names : containers[m].status # "absent" } |->
               LET age == age_days(containers[n])
               IN [age_days |-> age,
                   will_be_deleted |-> age # None /\ age >= PreviewMaxAgeDays,
                   days_remaining |-> IF age # None
                                      THEN Max(0, PreviewMaxAgeDays - age) ELSE None]])
    /\ UNCHANGED << hostVars, containers, storeVars, nextJob, brokerVars, worker, fol, poll >>

\* a day passes
DayPasses ==
    /\ now < MaxDays
    /\ now' = now + 1
    /\ UNCHANGED << memTotal, config, request, lifespan, threadVars, volumes, nextKey, containers,
                    storeVars, nextJob, brokerVars, worker, resp, fol, poll >>

ResetInstance ==
    \E instance_id \in InstanceIds, version \in RawVersions, vol_removed \in BOOLEAN,
       created \in BOOLEAN :
        reset_instance(instance_id, version, vol_removed, created)

(* ------------------------------------------------------------------ *)
(* routes.py: the routes behind Depends(verify_token), and /health     *)
(* ------------------------------------------------------------------ *)

\* a request arrives at the HTTP surface
Receive ==
    \E route \in Routes, auth \in Headers :
        /\ request' = [route |-> route, Authorization |-> auth]
        /\ UNCHANGED << memTotal, config, now, lifespan, threadVars, volumes, nextKey, containers,
                        storeVars, nextJob, brokerVars, worker, resp, fol, poll >>

\* a route declared with dependencies=[Depends(verify_token)]: the dependency
\* runs before the handler, and its HTTPException is the response
Protected(route, handler) ==
    /\ request.route = route
    /\ LET verdict == verify_token(config.API_AUTH_TOKEN, request.Authorization)
       IN IF verdict = "ok"
          THEN handler
          ELSE /\ resp' = Response(route, verdict, AuthCode(verdict))
               /\ UNCHANGED << hostVars, containers, storeVars, nextJob, brokerVars,
                               worker, fol, poll >>

\* GET /health, declared without the dependency: reads only
Health ==
    /\ request.route = "health"
    /\ resp' = Response("health", "ok", 200)
    /\ UNCHANGED << hostVars, containers, storeVars, nextJob, brokerVars, worker, fol, poll >>

ServeCreateInstance == Protected("create_instance", CreateInstanceResp)

ServeDeleteInstance == Protected("delete_instance", DeleteInstanceResp)

ServeGetCapacity == Protected("get_capacity", GetCapacity)

(* ------------------------------------------------------------------ *)
(* main.py: start-up and shutdown                                      *)
(* ------------------------------------------------------------------ *)

\* the statement of lifespan was executed
Called(call) == \E i \in 1..Len(lifespan) : lifespan[i] = call

\* the next statement of lifespan. The reconcile reads the configuration of
\* this process; the other calls change nothing of the modelled state but
\* what the threads and the server may do from then on.
\* An exception that leaves a call ends lifespan before its yield. Failures:
\* the sets of bootstrap steps that may raise.
lifespan_run(Failures) ==
    /\ Len(lifespan) < Len(lifespan_calls)
    /\ ~infra.raised
    /\ LET call == lifespan_calls[Len(lifespan) + 1]
       IN /\ lifespan' = Append(lifespan, call)
          /\ IF call = "bootstrap_infra"
             THEN \E failing \in Failures : infra' = bootstrap_infra(failing)
             ELSE UNCHANGED infra
          /\ sweeper' = IF call = "start_cleanup" THEN "waiting" ELSE sweeper
          /\ IF call = "sync_instance_env_vars"
             THEN \E failed \in SUBSET Names : sync_instance_env_vars(config, failed)
             ELSE UNCHANGED << memTotal, config, now, request, publisher, volumes, nextKey,
                               containers, storeVars, nextJob, brokerVars, worker, resp,
                               fol, poll >>

\* start-up and shutdown over an infrastructure that is sound or broken
lifespan_step == lifespan_run({ {}, BootstrapLabels })

\* worker.py 165, 182-185: _consume_loop sees the event of stop_worker set when
\* process_data_events has returned (or after the sleep that follows a lost
\* connection), closes its connection and returns
W_Exit ==
    /\ Called("stop_worker")
    /\ At("idle")
    /\ worker' = [Idle EXCEPT !.pc = "exited"]
    /\ conn' = "down"
    /\ UNCHANGED << hostVars, containers, storeVars, nextJob, queue, unacked, faults, resp, fol, poll >>

\* the thread start_worker made: _consume_loop. A message that arrives while
\* process_data_events(time_limit=1) is still waiting is dispatched although
\* the event is set; a new connection is opened only while it is not set.
WorkerThread ==
    /\ Called("start_worker")
    /\ \/ /\ ~(Called("stop_worker") /\ At("idle") /\ conn = "down")
          /\ WorkerStep
       \/ W_Exit

\* cleanup.py 41-43, 49: the wait returns when stop_cleanup has set the event,
\* the while sees it set and _cleanup_loop returns
C_Exit ==
    /\ Called("stop_cleanup")
    /\ sweeper = "waiting"
    /\ sweeper' = "exited"
    /\ UNCHANGED << memTotal, config, now, request, lifespan, infra, publisher, volumes,
                    nextKey, containers, storeVars, nextJob, brokerVars, worker, resp, fol, poll >>

\* the thread start_cleanup made: _cleanup_loop, until stop_cleanup sets the event
CleanupThread ==
    /\ Called("start_cleanup")
    /\ \/ /\ ~Called("stop_cleanup")
          /\ SweeperTick
       \/ C_Exit

\* the server takes requests between the yield of lifespan and its resumption
HttpGetCapacity ==
    /\ Called("yield")
    /\ ~Called("stop_cleanup")
    /\ GetCapacity

(* ------------------------------------------------------------------ *)
(* queue.py: the publisher's connection, channel and lock              *)
(* ------------------------------------------------------------------ *)

\* two threads that call publish_job, and the thread that calls close_rabbitmq
PublishThreads == { 1, 2 }
CloseThread == 3

\* connection: _connection (None or the number of the connection), channel:
\* _channel (the connection it was opened on), closed: the connections whose
\* is_closed is true, lock: the thread holding _lock (0: free), opened: the
\* connections made so far, pc / ch: each thread's position and its local channel
NoPublisher ==
    [connection |-> None, channel |-> None, closed |-> {}, lock |-> 0, opened |-> 0,
     pc |-> [t \in PublishThreads \cup { CloseThread } |-> "idle"],
     ch |-> [t \in PublishThreads |-> None]]

\* with _lock: (lines 24, 56) the thread waits until the lock is free
AcquireLock(t) ==
    /\ publisher.pc[t] = "idle"
    /\ publisher.lock = 0
    /\ publisher' = [publisher EXCEPT !.lock = t, !.pc[t] = "locked"]
    /\ UNCHANGED << memTotal, config, now, request, lifespan, sweeper, infra, volumes, nextKey,
                    containers, storeVars, nextJob, brokerVars, worker, resp, fol, poll >>

\* get_channel, lines 25-38: a new connection and channel when there is none
\* or it is closed; return _channel, which releases the lock (line 43 keeps
\* the channel in a local)
get_channel(t) ==
    /\ publisher.pc[t] = "locked"
    /\ LET fresh == publisher.connection = None \/ publisher.connection \in publisher.closed
           c == IF fresh THEN publisher.opened + 1 ELSE publisher.connection
           chan == IF fresh THEN c ELSE publisher.channel
       IN publisher' = [publisher EXCEPT !.connection = c, !.channel = chan,
                                         !.opened = IF fresh THEN @ + 1 ELSE @,
                                         !.lock = 0, !.ch[t] = chan, !.pc[t] = "publish"]
    /\ UNCHANGED << memTotal, config, now, request, lifespan, sweeper, infra, volumes, nextKey,
                    containers, storeVars, nextJob, brokerVars, worker, resp, fol, poll >>

\* line 44: the thread enters channel.basic_publish
EnterPublish(t) ==
    /\ publisher.pc[t] = "publish"
    /\ publisher' = [publisher EXCEPT !.pc[t] = "basic_publish"]
    /\ UNCHANGED << memTotal, config, now, request, lifespan, sweeper, infra, volumes, nextKey,
                    containers, storeVars, nextJob, brokerVars, worker, resp, fol, poll >>

\* lines 44-50: basic_publish returns or raises. On a channel of a closed
\* connection it raises; while another thread writes to the same channel the
\* frames of the two may interleave, and the message is delivered or not.
LeavePublish(t) ==
    /\ publisher.pc[t] = "basic_publish"
    /\ LET raced == \E u \in PublishThreads \ { t } :
                        /\ publisher.pc[u] = "basic_publish"
                        /\ publisher.ch[u] = publisher.ch[t]
       IN \E sent \in BOOLEAN :
              /\ sent => publisher.ch[t] \notin publisher.closed
              /\ ~sent => (raced \/ publisher.ch[t] \in publisher.closed)
              /\ IF sent
                 THEN publish_job(t, Payload(t, <<"b", "b">>, Latest, "vinhedo"))
                 ELSE UNCHANGED queue
    /\ publisher' = [publisher EXCEPT !.pc[t] = "idle"]
    /\ UNCHANGED << memTotal, config, now, request, lifespan, sweeper, infra, volumes, nextKey,
                    containers, storeVars, nextJob, unacked, conn, faults, worker, resp, fol, poll >>

\* close_rabbitmq, lines 56-62, under the lock: close the connection when it
\* is open, _connection = None; _channel keeps its value
close_rabbitmq ==
    /\ publisher.pc[CloseThread] = "locked"
    /\ publisher' = [publisher EXCEPT
           !.closed = IF publisher.connection # None
                      THEN @ \cup { publisher.connection } ELSE @,
           !.connection = None, !.lock = 0, !.pc[CloseThread] = "done"]
    /\ UNCHANGED << memTotal, config, now, request, lifespan, sweeper, infra, volumes, nextKey,
                    containers, storeVars, nextJob, brokerVars, worker, resp, fol, poll >>

\* a thread in publish_job, called while the queue of the model has room
PublishJob ==
    \E t \in PublishThreads :
        \/ Len(queue) < MaxJobs /\ AcquireLock(t)
        \/ get_channel(t)
        \/ EnterPublish(t)
        \/ LeavePublish(t)

\* the thread in close_rabbitmq
CloseRabbitmq ==
    \/ AcquireLock(CloseThread)
    \/ close_rabbitmq

(* ------------------------------------------------------------------ *)
(* the environment: the runtime's containers and Redis' key expiry     *)
(* ------------------------------------------------------------------ *)

\* a running container stops
ContainerExits ==
    \E name \in Names :
        /\ containers[name].status = "running"
        /\ containers' = [containers EXCEPT ![name].status = "exited"]
        /\ UNCHANGED << hostVars, storeVars, nextJob, brokerVars, worker, resp, fol, poll >>

\* the TTL of job:<id>:state runs out
ExpireState ==
    \E j \in JobIds :
        /\ state[j] # Missing
        /\ state' = [state EXCEPT ![j] = Missing]
        /\ stateTtl' = [stateTtl EXCEPT ![j] = 0]
        /\ UNCHANGED << hostVars, containers, events, eventsTtl, nextJob, brokerVars, worker, resp, fol, poll >>

(* ------------------------------------------------------------------ *)
(* routes.py: event_generator, the SSE follower                        *)
(* ------------------------------------------------------------------ *)

TimeoutFrame == Error(<<"sse_timeout">>)

LostFrame == Error(<<"job_lost">>)

\* Yield without the increment of event_index
Yield_NoIncrement(f, evs) ==
    [f EXCEPT !.pc = "yielded",
              !.frames = Append(@, Head(evs)),
              !.batch = Tail(evs)]

\* line 345-346: yield json.dumps(ev); event_index += 1. The generator is
\* suspended at the yield; the increment of its local counter is taken with it.
Yield(f, evs) ==
    [f EXCEPT !.pc = "yielded",
              !.frames = Append(@, Head(evs)),
              !.index = @ + 1,
              !.batch = Tail(evs)]

\* AfterBatch without the get_state check of lines 359-362
AfterBatch_IgnoreLost(f) ==
    \/ /\ f.elapsed > MaxDurationTicks
       /\ fol' = [f EXCEPT !.pc = "yielded_timeout", !.frames = Append(@, TimeoutFrame), !.batch = <<>>]
    \/ /\ f.elapsed <= MaxDurationTicks
       /\ \E t \in (f.elapsed + 1)..(MaxDurationTicks + 1) :
              fol' = [f EXCEPT !.pc = "poll", !.batch = <<>>, !.elapsed = t]

\* AfterBatch without the wall-clock cap of lines 353-357
AfterBatch_NoCap(f) ==
    \/ /\ get_state(f.job) = "unknown"
       /\ fol' = [f EXCEPT !.pc = "yielded_lost", !.frames = Append(@, LostFrame), !.batch = <<>>]
    \/ /\ get_state(f.job) # "unknown"
       /\ fol' = [f EXCEPT !.pc = "poll", !.batch = <<>>,
                           !.elapsed = IF @ > MaxDurationTicks THEN @ ELSE @ + 1]

\* lines 352-364, reached when the batch is used up: the wall-clock cap
\* (time.time() - start_time > max_duration), then get_state, then
\* asyncio.sleep(0.5), during which the clock advances by one tick or more
AfterBatch(f) ==
    \/ /\ f.elapsed > MaxDurationTicks
       /\ fol' = [f EXCEPT !.pc = "yielded_timeout", !.frames = Append(@, TimeoutFrame), !.batch = <<>>]
    \/ /\ f.elapsed <= MaxDurationTicks
       /\ get_state(f.job) = "unknown"
       /\ fol' = [f EXCEPT !.pc = "yielded_lost", !.frames = Append(@, LostFrame), !.batch = <<>>]
    \/ /\ f.elapsed <= MaxDurationTicks
       /\ get_state(f.job) # "unknown"
       /\ \E t \in (f.elapsed + 1)..(MaxDurationTicks + 1) :
              fol' = [f EXCEPT !.pc = "poll", !.batch = <<>>, !.elapsed = t]

\* lines 341-345: the loop's top, at the start and after each sleep:
\* get_events_since(job_id, event_index) and the first yield of the batch
F_Poll ==
    /\ fol.pc = "poll"
    /\ LET evs == get_events_since(fol.job, fol.index)
       IN IF evs # <<>> THEN fol' = Yield(fol, evs) ELSE AfterBatch(fol)
    /\ UNCHANGED << hostVars, containers, storeVars, nextJob, brokerVars, worker, resp, poll >>

\* F_Resume without the return of lines 348-350 on a terminal event
F_Resume_NoStop ==
    /\ fol.pc = "yielded"
    /\ IF fol.batch # <<>> THEN fol' = Yield(fol, fol.batch) ELSE AfterBatch(fol)
    /\ UNCHANGED storeVars
    /\ UNCHANGED << hostVars, containers, nextJob, brokerVars, worker, resp, poll >>

\* lines 348-350 and 344: resumed after the yield of an event: a terminal
\* event ends the stream with cleanup_job, otherwise the batch goes on
F_Resume ==
    /\ fol.pc = "yielded"
    /\ IF IsTerminal(fol.frames[Len(fol.frames)])
       THEN /\ cleanup_job(fol.job)
            /\ fol' = [fol EXCEPT !.pc = "done"]
            /\ UNCHANGED << state, events >>
       ELSE /\ IF fol.batch # <<>> THEN fol' = Yield(fol, fol.batch) ELSE AfterBatch(fol)
            /\ UNCHANGED storeVars
    /\ UNCHANGED << hostVars, containers, nextJob, brokerVars, worker, resp, poll >>

\* lines 355-356: resumed after the timeout frame: cleanup_job, return
F_ResumeTimeout ==
    /\ fol.pc = "yielded_timeout"
    /\ cleanup_job(fol.job)
    /\ fol' = [fol EXCEPT !.pc = "done"]
    /\ UNCHANGED << hostVars, containers, state, events, nextJob, brokerVars, worker, resp, poll >>

\* line 362: resumed after the "Job perdido ou expirado" frame: return
F_ResumeLost ==
    /\ fol.pc = "yielded_lost"
    /\ fol' = [fol EXCEPT !.pc = "done"]
    /\ UNCHANGED << hostVars, containers, storeVars, nextJob, brokerVars, worker, resp, poll >>

\* a cancellation that also deletes the job's state key
F_Cancel_DropsState ==
    /\ fol.pc \in { "poll", "yielded", "yielded_timeout", "yielded_lost" }
    /\ state' = [state EXCEPT ![fol.job] = Missing]
    /\ stateTtl' = [stateTtl EXCEPT ![fol.job] = 0]
    /\ fol' = [fol EXCEPT !.pc = "cancelled", !.batch = <<>>, !.elapsed = 0]
    /\ UNCHANGED << hostVars, containers, events, eventsTtl, nextJob, brokerVars, worker, resp, poll >>

\* lines 366-368: the client disconnects. Cancelled in the sleep, the generator
\* gets CancelledError: cleanup_job, raise. Suspended at a yield it is closed
\* by the server, with CancelledError or with GeneratorExit, which the except
\* clause does not catch.
F_Cancel ==
    /\ fol.pc \in { "poll", "yielded", "yielded_timeout", "yielded_lost" }
    /\ \/ /\ cleanup_job(fol.job)
          /\ UNCHANGED << state, events >>
       \/ /\ fol.pc # "poll"
          /\ UNCHANGED storeVars
    /\ fol' = [fol EXCEPT !.pc = "cancelled", !.batch = <<>>, !.elapsed = 0]
    /\ UNCHANGED << hostVars, containers, nextJob, brokerVars, worker, resp, poll >>

FollowerStep ==
    \/ F_Poll
    \/ F_Resume
    \/ F_ResumeTimeout
    \/ F_ResumeLost

(* ------------------------------------------------------------------ *)
(* routes.py: job_events, and a client that polls it                   *)
(* ------------------------------------------------------------------ *)

NoPoll ==
    [ pc |-> "idle", job |-> 0, k0 |-> 0, since |-> 0, st |-> "unknown",
      got |-> <<>>, n1 |-> 0, calls |-> 0 ]

\* lines 223-225: get_state(job_id); 404 when it is unknown. The client's first
\* call chooses the job and the index, a later call passes next_index.
P_GetState ==
    /\ poll.pc = "idle"
    /\ poll.calls < MaxPolls
    /\ \E j \in (IF poll.calls = 0 THEN 1..(nextJob - 1) ELSE { poll.job }),
          k \in (IF poll.calls = 0 THEN 0..MaxSince ELSE { poll.since }) :
         /\ get_state(j) # "unknown"
         /\ poll' = [poll EXCEPT !.pc = "read", !.job = j, !.since = k, !.st = get_state(j),
                                 !.k0 = IF poll.calls = 0 THEN k ELSE @]
    /\ UNCHANGED << hostVars, containers, storeVars, nextJob, brokerVars, worker, resp, fol >>

\* lines 227-231: get_events_since(job_id, since); cleanup_job when the state
\* read before was terminal; next_index = since + len(events)
P_Read ==
    /\ poll.pc = "read"
    /\ LET evs == get_events_since(poll.job, poll.since)
       IN poll' = [poll EXCEPT !.pc = "idle",
                               !.got = @ \o evs,
                               !.since = @ + Len(evs),
                               !.n1 = IF poll.calls = 0 THEN Len(evs) ELSE @,
                               !.calls = @ + 1]
    /\ IF poll.st \in Terminal
       THEN /\ cleanup_job(poll.job)
            /\ UNCHANGED << state, events >>
       ELSE UNCHANGED storeVars
    /\ UNCHANGED << hostVars, containers, nextJob, brokerVars, worker, resp, fol >>

PollStep ==
    \/ P_GetState
    \/ P_Read

(* ------------------------------------------------------------------ *)
(* The specification                                                   *)
(* ------------------------------------------------------------------ *)

InitBase ==
    /\ now = 0
    /\ request = NoRequest
    /\ lifespan = AtYield
    /\ sweeper = "waiting"
    /\ infra = bootstrap_infra({})
    /\ publisher = NoPublisher
    /\ volumes = [n \in Names |-> NoVolume]
    /\ containers = [n \in Names |-> NoContainer]
    /\ state = [j \in JobIds |-> Missing]
    /\ events = [j \in JobIds |-> <<>>]
    /\ stateTtl = [j \in JobIds |-> 0]
    /\ eventsTtl = [j \in JobIds |-> 0]
    /\ queue = <<>>
    /\ unacked = NoMessage
    /\ conn = "up"
    /\ faults = 0
    /\ worker = Idle
    /\ resp = [op |-> "none", outcome |-> "none", code |-> 0, tick |-> 0]
    /\ fol = NoFollower
    /\ poll = NoPoll

\* the service after start-up: no container, no job, an empty queue
Init ==
    /\ InitBase
    /\ nextKey = 1
    /\ config = DefaultConfig
    /\ memTotal \in MemTotals
    /\ nextJob = 1

\* the same, with one job id left to hand out: the behaviours of a single job
InitOneJob ==
    /\ InitBase
    /\ nextKey = 1
    /\ config = DefaultConfig
    /\ memTotal \in MemTotals
    /\ nextJob = MaxJobs

\* the provisioning pipeline: intake, broker, worker and the runtime
Next ==
    \/ EnqueueInstance
    \/ ContainerExits
    \/ Disconnect
    \/ WorkerStep

Spec == Init /\ [][Next]_vars

\* the worker thread keeps running, the broker delivers, runtime calls return
FairSpec == Spec /\ WF_vars(WorkerStep)

\* the three intake routes with their responses, over the runtime
NextIntake ==
    \/ EnqueueInstanceResp
    \/ CreateInstanceResp
    \/ CreateInstanceStreamResp
    \/ DeleteInstance
    \/ ContainerExits

SpecIntake == Init /\ [][NextIntake]_vars

\* the two enqueueing routes over a job store that can fail, and the worker
NextStore ==
    \/ EnqueueInstanceStore
    \/ CreateInstanceStreamStore
    \/ ContainerExits
    \/ Disconnect
    \/ WorkerStep

SpecStore == Init /\ [][NextStore]_vars

\* one job, its worker and a client of GET /job/{job_id}/events
NextPoll ==
    \/ EnqueueInstance
    \/ ContainerExits
    \/ Disconnect
    \/ WorkerStep
    \/ PollStep

SpecPoll == InitOneJob /\ [][NextPoll]_vars

\* one job, its worker and its SSE follower
NextFollow ==
    \/ CreateInstanceStream
    \/ ContainerExits
    \/ Disconnect
    \/ ExpireState
    \/ WorkerStep
    \/ FollowerStep

SpecFollow == InitOneJob /\ [][NextFollow]_vars

\* the synchronous routes on instances and the start-up reconcile
NextOps ==
    \/ CreateInstanceResp
    \/ DeleteInstanceResp
    \/ RestartInstance
    \/ ResetInstance
    \/ UpdateVersion
    \/ Startup
    \/ ContainerExits

SpecOps == Init /\ [][NextOps]_vars

\* instances that age and are restarted, rebuilt, reconciled and reset
NextRebuild ==
    \/ CreateInstanceResp
    \/ RestartInstance
    \/ ResetInstance
    \/ UpdateVersion
    \/ Startup
    \/ DayPasses
    \/ ContainerExits

SpecRebuild == Init /\ [][NextRebuild]_vars

\* clients with and without the token, a service with and without
\* API_AUTH_TOKEN, and one key left to hand out: at most one instance is made
InitAuth ==
    /\ InitBase
    /\ nextKey = MaxKeys
    /\ config \in { [DefaultConfig EXCEPT !.API_AUTH_TOKEN = token] : token \in Tokens }
    /\ memTotal \in MemTotals
    /\ nextJob = 1

NextAuth ==
    \/ Receive
    \/ Health
    \/ ServeCreateInstance
    \/ ServeDeleteInstance
    \/ ServeGetCapacity
    \/ ContainerExits

SpecAuth == InitAuth /\ [][NextAuth]_vars

\* a process that starts over what an earlier run left: an instance made
\* under the first configuration, a pending job in the durable queue
InitLifespan ==
    /\ lifespan = <<>>
    /\ sweeper = "none"
    /\ infra = NoBootstrap
    /\ publisher = NoPublisher
    /\ config \in Configs
    /\ memTotal \in MemTotals
    /\ now = 0
    /\ request = NoRequest
    /\ volumes = [n \in Names |-> IF n = <<"a", "1">> THEN 1 ELSE NoVolume]
    /\ nextKey = 2
    /\ containers = [n \in Names |->
           IF n = <<"a", "1">>
           THEN Container("running", 0, Latest, build_env(DefaultConfig, n, 1), 0)
           ELSE NoContainer]
    /\ state = [j \in JobIds |-> IF j = 1 THEN "pending" ELSE Missing]
    /\ events = [j \in JobIds |-> <<>>]
    /\ stateTtl = [j \in JobIds |-> IF j = 1 THEN JOB_TTL ELSE 0]
    /\ eventsTtl = [j \in JobIds |-> 0]
    /\ nextJob = 2
    /\ queue = << dumps(Payload(1, <<"b", "b">>, Latest, "vinhedo")) >>
    /\ unacked = NoMessage
    /\ conn = "up"
    /\ faults = 0
    /\ worker = Idle
    /\ resp = [op |-> "none", outcome |-> "none", code |-> 0, tick |-> 0]
    /\ fol = NoFollower
    /\ poll = NoPoll

NextLifespan ==
    \/ lifespan_step
    \/ WorkerThread
    \/ CleanupThread
    \/ HttpGetCapacity
    \/ Disconnect
    \/ ContainerExits

SpecLifespan == InitLifespan /\ [][NextLifespan]_vars

\* threads in publish_job and close_rabbitmq, hosts of several sizes
NextPublisher ==
    \/ PublishJob
    \/ CloseRabbitmq

SpecPublisher == Init /\ [][NextPublisher]_vars

\* start-up over an infrastructure of which any steps may fail
lifespan_boot == lifespan_run(SUBSET BootstrapLabels)

NextBootstrap ==
    \/ lifespan_boot
    \/ HttpGetCapacity
    \/ ContainerExits

SpecBootstrap == InitLifespan /\ [][NextBootstrap]_vars

\* hosts of several sizes, instances that are created and stop, GET /capacity
InitCapacity ==
    /\ InitBase
    /\ nextKey = 1
    /\ config = DefaultConfig
    /\ memTotal \in CapacityMemTotals
    /\ nextJob = 1

NextCapacity ==
    \/ GetCapacity
    \/ CreateInstanceResp
    \/ ContainerExits

SpecCapacity == InitCapacity /\ [][NextCapacity]_vars

\* instances that are created and age, and the sweeper thread
\* a service that starts with an instance of an earlier release, which has
\* no label app.created_at and no timestamp that can be parsed
InitSweep ==
    /\ lifespan = AtYield
    /\ sweeper = "waiting"
    /\ infra = bootstrap_infra({})
    /\ publisher = NoPublisher
    /\ config = DefaultConfig
    /\ memTotal \in MemTotals
    /\ now = 0
    /\ request = NoRequest
    /\ volumes = [n \in Names |-> IF n = <<"a", "1">> THEN 1 ELSE NoVolume]
    /\ nextKey = 2
    /\ containers = [n \in Names |->
           IF n = <<"a", "1">>
           THEN Container("running", 0, Latest, build_env(DefaultConfig, n, 1), None)
           ELSE NoContainer]
    /\ state = [j \in JobIds |-> Missing]
    /\ events = [j \in JobIds |-> <<>>]
    /\ stateTtl = [j \in JobIds |-> 0]
    /\ eventsTtl = [j \in JobIds |-> 0]
    /\ nextJob = 1
    /\ queue = <<>>
    /\ unacked = NoMessage
    /\ conn = "up"
    /\ faults = 0
    /\ worker = Idle
    /\ resp = [op |-> "none", outcome |-> "none", code |-> 0, tick |-> 0]
    /\ fol = NoFollower
    /\ poll = NoPoll

NextSweep ==
    \/ CreateInstanceResp
    \/ DeleteInstanceResp
    \/ ContainerExits
    \/ DayPasses
    \/ SweeperTick
    \/ cleanup_preview

SpecSweep == InitSweep /\ [][NextSweep]_vars

\* the server keeps driving the generator while the client is connected
FairFollow == SpecFollow /\ WF_vars(FollowerStep)

\* the streaming intake, the worker and the follower with a client that may
\* disconnect
NextCancel ==
    \/ NextFollow
    \/ F_Cancel

SpecCancel == InitOneJob /\ [][NextCancel]_vars

\* the worker thread keeps running, whatever the follower does
FairCancel == SpecCancel /\ WF_vars(WorkerStep)

(* ------------------------------------------------------------------ *)
(* Properties                                                          *)
(* ------------------------------------------------------------------ *)

\* the job ids handed out so far
Jobs == 1..(nextJob - 1)

\* _process_job has run to its end for the job and is not running for it
Finished(j) ==
    /\ state[j] \in Terminal
    /\ worker.job.job_id # j

\* C1: a job's event list never holds two terminal events, and holds exactly
\* one once _process_job has finished with the job, whatever was redelivered
C1_ExactlyOneTerminal ==
    \A j \in Jobs :
        /\ TerminalCount(j) <= 1
        /\ Finished(j) => TerminalCount(j) = 1

\* C2: a terminal event is the last element of its job's event list: the
\* worker pushes nothing for a job after the job's terminal event
C2_TerminalIsLast ==
    \A j \in Jobs :
        \A i \in 1..(Len(events[j]) - 1) : ~IsTerminal(Events(j)[i])

StateRank(s) ==
    IF s = "pending" THEN 1 ELSE IF s = "running" THEN 2 ELSE 3

\* C3: while the state key exists its value only moves forward along
\* pending -> running -> (complete | error), and complete and error are absorbing
C3_StateForward ==
    [][\A j \in JobIds :
          (state[j] # Missing /\ state'[j] # Missing) =>
              /\ StateRank(state'[j]) >= StateRank(state[j])
              /\ state[j] \in Terminal => state'[j] = state[j]]_vars

\* the job is published and not yet terminal
InFlight(p) ==
    /\ p \in Held
    /\ state[p.job_id] \in { "pending", "running" }

\* C5: no two provisioning jobs for the same instance name are in flight at
\* the same time
C5_OneJobPerName ==
    \A p, q \in Held :
        (InFlight(p) /\ InFlight(q) /\ p.name = q.name) => p.job_id = q.job_id

\* the broker holds a message of the job (ready or delivered and not acked)
Published(j) == \E p \in Held : p.job_id = j

\* C4: under fairness every job published to instance_creation eventually has
\* a terminal event in its event list and its message acknowledged, also when
\* the worker's connection is lost and the message is redelivered
C4_EveryJobTerminates ==
    \A j \in JobIds :
        Published(j) ~> (~Published(j) /\ TerminalCount(j) >= 1)

\* a job whose delivery was cut by a connection loss, redelivered and acked
C4_Witness ==
    /\ faults = 1
    /\ conn = "up"
    /\ nextJob > 1
    /\ ~Published(1)
    /\ state[1] \in Terminal
    /\ TerminalCount(1) >= 1
    /\ worker = Idle

\* C6: a request an intake route rejects (name missing or invalid, no capacity,
\* container of that name exists) changes nothing: no job state, no message,
\* no container; the POST routes answer 400, or 409 for capacity
C6_RejectionLeavesState ==
    [][(resp' # resp /\ resp'.outcome \in Rejections) =>
        /\ UNCHANGED << hostVars, containers, storeVars, nextJob, brokerVars, worker, fol, poll >>
        /\ resp'.op \in { "enqueue_instance", "create_instance" } =>
               resp'.code = IF resp'.outcome = "capacity" THEN 409 ELSE 400
      ]_vars

\* POST /enqueue-instance was rejected for a container that exists, while the
\* host had capacity, and POST /enqueue-instance has accepted a job before
C6_Witness ==
    /\ resp.op = "enqueue_instance"
    /\ resp.outcome = "duplicate"
    /\ resp.code = 400
    /\ nextJob = 2
    /\ \E name \in Names : containers[name].status = "exited"

\* the elements of a list from the 0-based index k to its end
Slice(list, k) == IF k >= Len(list) THEN <<>> ELSE SubSeq(list, k + 1, Len(list))

\* C7: a client that reads get_events_since(job, k) and then
\* get_events_since(job, k + len(r1)), with pushes of the worker in between,
\* has received exactly events[k..end] of the list as it is at the later read
C7_IncrementalReadsCoverSlice ==
    [][(poll.pc = "read" /\ poll'.pc = "idle") =>
        /\ poll'.got = Slice(Events(poll.job), poll.k0)
        /\ poll'.since = poll.k0 + Len(poll'.got)
      ]_vars

\* two reads from k = 1, the first returned events and the worker pushed more
\* before the second
C7_Witness ==
    /\ poll.pc = "idle"
    /\ poll.calls = 2
    /\ poll.k0 = 1
    /\ poll.n1 > 0
    /\ Len(poll.got) > poll.n1
    /\ poll.got = Slice(Events(poll.job), 1)

\* the last frame the follower has streamed
LastFrame == fol.frames[Len(fol.frames)]

\* C8: the follower streams each event of the job once and in the order of
\* the store: its event frames are the first event_index events of the job's
\* list (the only other frame is one closing timeout or lost frame), and
\* event_index never decreases
C8_FramesArePrefix ==
    /\ [](fol.pc # "none" =>
            /\ fol.index <= Len(events[fol.job])
            /\ SubSeq(fol.frames, 1, fol.index) = SubSeq(Events(fol.job), 1, fol.index)
            /\ Len(fol.frames) \in { fol.index, fol.index + 1 }
            /\ Len(fol.frames) = fol.index + 1 =>
                   /\ LastFrame \in { TimeoutFrame, LostFrame }
                   /\ fol.pc \in { "yielded_timeout", "yielded_lost", "done" })
    /\ [][fol.pc # "none" => fol'.index >= fol.index]_vars

\* the follower has streamed two events over more than one poll and the worker
\* has pushed a further event it has not read yet
C8_Witness ==
    /\ fol.pc = "poll"
    /\ fol.index >= 2
    /\ Len(fol.frames) = fol.index
    /\ Len(events[fol.job]) > fol.index
    /\ worker.pc # "idle"

\* C9: the follower that has streamed a complete or error event calls
\* cleanup_job and closes: no frame follows the first terminal frame, also
\* when the batch holds later events or events are appended afterwards
C9_StopsAtTerminal ==
    /\ [](\A i \in 1..(Len(fol.frames) - 1) : ~IsTerminal(fol.frames[i]))
    /\ [][(fol.pc = "yielded" /\ IsTerminal(LastFrame) /\ fol' # fol) =>
            /\ fol'.pc = "done"
            /\ fol'.frames = fol.frames
            /\ eventsTtl'[fol.job] = JOB_CLEANUP_TTL
            /\ state[fol.job] # Missing => stateTtl'[fol.job] = JOB_CLEANUP_TTL
         ]_vars
    /\ [][fol.pc = "done" => fol' = fol]_vars

\* the follower closed on a terminal event of the store while its batch still
\* held a later event
C9_Witness ==
    /\ fol.pc = "done"
    /\ fol.index >= 1
    /\ Len(fol.frames) = fol.index
    /\ IsTerminal(LastFrame)
    /\ fol.batch # <<>>
    /\ Len(events[fol.job]) > fol.index
    /\ eventsTtl[fol.job] = JOB_CLEANUP_TTL

\* C10: when get_state answers unknown the follower streams the one frame
\* "Job perdido ou expirado" and returns: it does not sleep and poll again, it
\* writes nothing to the store, and the worker is left as it is
C10_LostJobEndsFollower ==
    [][/\ (fol'.pc = "yielded_lost" /\ fol.pc # "yielded_lost") =>
            /\ get_state(fol.job) = "unknown"
            /\ fol'.frames = Append(fol.frames, LostFrame)
            /\ UNCHANGED << storeVars, brokerVars, worker >>
       /\ (fol.pc = "yielded_lost" /\ fol' # fol) =>
            /\ fol'.pc = "done"
            /\ fol'.frames = fol.frames
            /\ UNCHANGED << storeVars, brokerVars, worker >>
       /\ (fol.pc \in { "poll", "yielded" } /\ fol' # fol /\ fol'.pc = "poll") =>
            get_state(fol.job) # "unknown"
      ]_vars

\* the follower has ended with the lost frame and the worker, which was still
\* processing the job, has since pushed events and written its terminal state
C10_Witness ==
    /\ fol.pc = "done"
    /\ LastFrame = LostFrame
    /\ Len(fol.frames) = fol.index + 1
    /\ Len(events[fol.job]) > fol.index
    /\ state[fol.job] \in Terminal

C12_CancelLeavesJob ==
    /\ [][(fol'.pc = "cancelled" /\ fol.pc # "cancelled") =>
              UNCHANGED << state, events, brokerVars, worker, containers, nextJob >>]_vars
    /\ [][fol.pc = "cancelled" => fol' = fol]_vars
    /\ (fol.pc = "cancelled" /\ Published(fol.job)) ~>
           (/\ fol.pc = "cancelled"
            /\ ~Published(fol.job)
            /\ TerminalCount(fol.job) >= 1)

\* the follower was cancelled before any terminal event reached it, and the
\* worker has since finished the job and acknowledged its message
C12_Witness ==
    /\ fol.pc = "cancelled"
    /\ \A i \in 1..Len(fol.frames) : ~IsTerminal(fol.frames[i])
    /\ ~Published(fol.job)
    /\ TerminalCount(fol.job) >= 1
    /\ state[fol.job] = "complete"
    /\ worker = Idle

\* the worker has pushed the complete event of the job and written its state
Completed(j) ==
    /\ \E i \in 1..Len(events[j]) : Events(j)[i].status = "complete"
    /\ ~(worker.job.job_id = j /\ worker.pc = "set_complete")

\* C13: once the worker has completed a job, a later GET /job/{job_id}/events
\* with since = 0 answers state complete and a list of events that ends with
\* the complete event of the instance
C13_CompleteIsFinal ==
    [][/\ (poll.pc = "idle" /\ poll'.pc = "read" /\ Completed(poll'.job)) =>
              poll'.st = "complete"
       /\ (poll.pc = "read" /\ poll'.pc = "idle" /\ poll.since = 0 /\ Completed(poll.job)) =>
              LET evs == get_events_since(poll.job, 0)
                  last == evs[Len(evs)]
              IN /\ evs # <<>>
                 /\ last.status = "complete"
                 /\ last.container_status = "running"
                 /\ last.url = instance_url(last.instance_id)
      ]_vars

\* C14: a name or a version that does not match its pattern never reaches the
\* runtime: every container there is was started from an image tag that
\* validate_version accepts, under a name that validate_instance_name accepts
C14_OnlyValidReachRuntime ==
    \A n \in DOMAIN containers :
        containers[n].status # "absent" =>
            /\ validate_instance_name(n) = n
            /\ validate_version(containers[n].version) # Invalid

\* C15: calculate_max_instances answers, for every MemTotal and every set of
\* containers, max_instances = max(1, floor((total - reserved) / per instance))
\* >= 1, active_instances = the number of running containers, and can_create
\* exactly when active_instances < max_instances
C15_CapacityFormula ==
    [][(resp'.op = "get_capacity" /\ resp' # resp) =>
        LET cap == resp'.target
            floor == (memTotal - RESERVED_RAM_MB * MiB) \div (PER_INSTANCE_RAM_MB * MiB)
        IN /\ cap.max_instances = (IF floor >= 1 THEN floor ELSE 1)
           /\ cap.max_instances >= 1
           /\ cap.active_instances =
                  Cardinality({ n \in Names : containers[n].status = "running" })
           /\ cap.can_create <=> (cap.active_instances < cap.max_instances)
      ]_vars

\* a host with less RAM than the reserve, whose one allowed instance runs:
\* GET /capacity answered max_instances 1 and can_create false
C15_Witness ==
    /\ resp.op = "get_capacity"
    /\ memTotal < RESERVED_RAM_MB * MiB
    /\ memTotal - RESERVED_RAM_MB * MiB > -(PER_INSTANCE_RAM_MB * MiB)
    /\ resp.target.max_instances = 1
    /\ resp.target.active_instances = 1
    /\ ~resp.target.can_create

\* C16: across update-version, the start-up reconcile and restart (every step
\* that is not the answer of a reset), a container that exists before and after
\* the step keeps its N8N_ENCRYPTION_KEY and its label app.created_at; only a
\* reset changes the key of an instance
C16_RebuildKeepsKeyAndLabel ==
    [][\A n \in Names :
          ( /\ containers[n].status # "absent"
            /\ containers'[n].status # "absent"
            /\ ~(resp' # resp /\ resp'.op = "reset_instance") )
          => /\ extract_encryption_key(containers'[n]) = extract_encryption_key(containers[n])
             /\ containers'[n].created_at = containers[n].created_at
      ]_vars

\* an instance made on an earlier day, after a reset, answered "updated": it
\* has the new version, the key of the reset and the label of the reset
C16_Witness ==
    /\ resp.op = "update_version"
    /\ resp.outcome = "updated"
    /\ LET c == containers[resp.target]
       IN /\ c.version = <<"2", ".", "0", ".", "0">>
          /\ c.created_at < now
          /\ extract_encryption_key(c) > 1
          /\ volumes[resp.target] = extract_encryption_key(c)

\* C17: a reset answered 200 was of an existing instance, whose container is
\* made anew with a key different from the one before and whose data volume
\* was removed, so that the volume holds the data of the new container only;
\* a reset of a name with no container answers 404 and creates nothing
C17_ResetDestroysAndRekeys ==
    [][(resp' # resp /\ resp'.op = "reset_instance") =>
          LET n == resp'.target
          IN /\ resp'.outcome = "reset" =>
                  /\ n \in Names
                  /\ containers[n].status # "absent"
                  /\ containers'[n].status = "running"
                  /\ extract_encryption_key(containers'[n]) # extract_encryption_key(containers[n])
                  /\ volumes'[n] = extract_encryption_key(containers'[n])
             /\ get_container(n).status = "absent" =>
                  /\ resp'.outcome = "not_found"
                  /\ resp'.code = 404
                  /\ containers' = containers
                  /\ volumes' = volumes
      ]_vars

\* C18: when DELETE /delete-instance finds the container, remove_container
\* returns normally whether or not the data volume could be removed, and
\* get_container signals NotFound afterwards; when there is no container it
\* signals NotFound (404) and nothing changes
C18_RemovedIsNotFound ==
    [][(resp' # resp /\ resp'.op = "delete_instance") =>
          LET n == resp'.target
          IN IF get_container(n).status = "absent"
             THEN /\ resp'.outcome = "not_found"
                  /\ resp'.code = 404
                  /\ containers' = containers
                  /\ volumes' = volumes
             ELSE /\ resp'.outcome = "deleted"
                  /\ resp'.code = 200
                  /\ containers'[n] = NoContainer
      ]_vars

\* a removal that returned normally although the volume stayed
C18_Witness ==
    /\ resp.op = "delete_instance"
    /\ resp.outcome = "deleted"
    /\ get_container(resp.target).status = "absent"
    /\ volumes[resp.target] # NoVolume

C20_TickRemovesExpired ==
    [][(resp' # resp /\ resp'.op = "run_cleanup") =>
          \A n \in Names :
              ( /\ containers[n].status # "absent"
                /\ age_days(containers[n]) >= MaxAgeDays )
              => containers'[n] = NoContainer
      ]_vars

\* C21: a protected route answers with anything but the rejection of the
\* dependency only when a token is configured and the Authorization header
\* is "Bearer " followed by that token; without a configured token it answers
\* 500, without a Bearer header 401, with another token 403, and then nothing
\* but the response changes; GET /health answers whatever the header is
C21_ProtectedRoutesNeedToken ==
    [][(resp' # resp) =>
          LET auth == request.Authorization
              token == config.API_AUTH_TOKEN
              bearer == Len(auth) >= 7 /\ SubSeq(auth, 1, 7) = Bearer
              given == strip(SubSeq(auth, 8, Len(auth)))
              rejected == resp'.outcome \in AuthOutcomes
          IN IF request.route = "health"
             THEN resp'.op = "health" /\ resp'.code = 200
             ELSE /\ resp'.op = request.route
                  /\ ~rejected => (token # <<>> /\ bearer /\ given = token)
                  /\ token = <<>> => (rejected /\ resp'.code = 500)
                  /\ (token # <<>> /\ ~bearer) => (rejected /\ resp'.code = 401)
                  /\ (token # <<>> /\ bearer /\ given # token) => (rejected /\ resp'.code = 403)
                  /\ rejected => UNCHANGED << hostVars, containers, storeVars, nextJob,
                                              brokerVars, worker, fol, poll >>
      ]_vars

\* a DELETE with a wrong token, answered 403 while the instance it names
\* exists
C21_Witness ==
    /\ request.route = "delete_instance"
    /\ request.Authorization = Bearer \o <<"x">>
    /\ resp.op = "delete_instance"
    /\ resp.code = 403
    /\ \E n \in Names : containers[n].status = "running"

\* C22: every call of basic_ack is the first one for its delivery and comes
\* when the last event written for the job is a terminal one; the call
\* returns the worker to the consume loop, and when it raises because the
\* connection is lost the broker has the message again
C22_AckOnceAfterTerminal ==
    [][(worker.pc \in {"err_ack", "final_ack"} /\ worker' # worker) =>
          LET evs == Events(worker.job.job_id)
          IN /\ worker.acks = 0
             /\ evs # <<>> /\ IsTerminal(evs[Len(evs)])
             /\ conn = "up" => (unacked # NoMessage /\ unacked' = NoMessage /\ worker' = Idle)
             /\ conn = "down" => (unacked' = unacked /\ queue # <<>>)
      ]_vars

\* C23: a message is delivered only when the worker holds no job and no
\* delivery is unacknowledged; it is the oldest message the broker holds, and
\* every job the worker took up before has its terminal event, also after a
\* reconnection
C23_OneJobInPublishOrder ==
    [][(unacked' # unacked /\ unacked' # NoMessage) =>
          /\ worker.pc = "idle"
          /\ unacked = NoMessage
          /\ worker'.job = loads(unacked')
          /\ \A i \in 1..Len(queue') : loads(queue'[i]).job_id > loads(unacked').job_id
          /\ \A j \in JobIds :
                 state[j] \in {"running", "error", "complete"} => TerminalCount(j) >= 1
      ]_vars

\* the second job in the worker after a reconnection, the first one finished
\* and the queue empty
C23_Witness ==
    /\ worker.pc # "idle"
    /\ worker.job.job_id = 2
    /\ unacked # NoMessage
    /\ TerminalCount(1) >= 1
    /\ faults = 1
    /\ conn = "up"

\* C24: every message the broker holds, ready or delivered, is of a job
\* whose state key init_job has set, and so is the job the worker starts on;
\* a job whose init_job failed is never published
C24_PublishedAfterInit ==
    /\ \A p \in Held : state[p.job_id] # Missing
    /\ worker.pc = "set_running" => state[worker.job.job_id] # Missing

\* the init_job of the first job failed and left no message, the second job
\* is initialised and waits in the queue
C24_Witness ==
    /\ nextJob = 3
    /\ state[1] = Missing
    /\ state[2] = "pending"
    /\ \E p \in Held : p.job_id = 2
    /\ \A p \in Held : p.job_id # 1

\* C25: a step that shortens a TTL of a job to JOB_CLEANUP_TTL finds a terminal
\* event of the job in the store and the job neither pending nor running, and
\* no step raises a TTL that was shortened
C25_ShortenOnlyAfterTerminal ==
    [][\A j \in JobIds :
          /\ ( \/ (stateTtl'[j] = JOB_CLEANUP_TTL /\ stateTtl[j] # JOB_CLEANUP_TTL)
               \/ (eventsTtl'[j] = JOB_CLEANUP_TTL /\ eventsTtl[j] # JOB_CLEANUP_TTL) )
             => /\ TerminalCount(j) >= 1
                /\ get_state(j) \notin {"pending", "running"}
          /\ stateTtl[j] = JOB_CLEANUP_TTL => stateTtl'[j] <= JOB_CLEANUP_TTL
          /\ eventsTtl[j] = JOB_CLEANUP_TTL => eventsTtl'[j] <= JOB_CLEANUP_TTL
      ]_vars

\* C26: a job delivered for a name whose container exists takes the error
\* exit of the duplicate guard: the worker appends the error event, acks the
\* delivery, and none of its steps on that exit touches a container, a volume
\* or the key generator
C26_DuplicateGuard ==
    [][(worker' # worker) =>
          LET dup == worker.pc = "check_dup" /\ containers[worker.job.name].status # "absent"
              exit == worker.err = <<"exists">>
          IN /\ dup => (worker'.pc = "err_push" /\ worker'.err = <<"exists">>)
             /\ (dup \/ exit) => UNCHANGED << containers, volumes, nextKey >>
             /\ (exit /\ worker.pc = "err_push") =>
                    events'[worker.job.job_id] =
                        Append(events[worker.job.job_id], dumps(Error(<<"exists">>)))
             /\ (exit /\ worker.pc = "err_ack" /\ conn = "up") =>
                    (unacked # NoMessage /\ unacked' = NoMessage /\ worker' = Idle)
      ]_vars

\* the second job for a name was refused by the guard and acknowledged; the
\* container the first job made is there with its key and its volume
C26_Witness ==
    /\ worker = Idle
    /\ unacked = NoMessage
    /\ queue = <<>>
    /\ state[2] = "error"
    /\ Events(2) = << Error(<<"exists">>) >>
    /\ \E n \in Names :
           /\ containers[n].status = "running"
           /\ containers[n].by = 1
           /\ volumes[n] = extract_encryption_key(containers[n])

\* C27: when the worker is about to acknowledge a job whose pull or run
\* failed, the error event with the reason is the last event of the job and
\* no container made for the job is left under its name
C27_FailedCreationLeavesNothing ==
    (worker.pc = "err_ack" /\ worker.err \in { <<"pull_failed">>, <<"run_failed">> }) =>
        /\ Events(worker.job.job_id) # <<>>
        /\ Events(worker.job.job_id)[Len(Events(worker.job.job_id))] = Error(worker.err)
        /\ ~CtAlive

\* C28: when the readiness loop ends without the instance ready, the worker
\* appends the timeout error event, sets the state error and acks, and no
\* step of that exit changes a container: the container made for the job is
\* still there when the worker is back in the consume loop
C28_TimeoutKeepsContainer ==
    [][(worker' # worker) =>
          LET j == worker.job.job_id
              exit == worker.err = <<"timeout">>
          IN /\ (worker.pc = "timeout_logs" /\ CtAlive) =>
                    (worker'.pc = "err_push" /\ worker'.err = <<"timeout">>)
             /\ (worker.pc = "timeout_logs" \/ exit) => UNCHANGED << containers, volumes >>
             /\ (exit /\ worker.pc = "err_push") =>
                    events'[j] = Append(events[j], dumps(Error(<<"timeout">>)))
             /\ (exit /\ worker.pc = "err_state") => state'[j] = "error"
             /\ (exit /\ worker.pc = "err_ack" /\ conn = "up") =>
                    /\ unacked # NoMessage /\ unacked' = NoMessage /\ worker' = Idle
                    /\ containers'[worker.job.name].status # "absent"
                    /\ containers'[worker.job.name].by = j
      ]_vars

\* the job ended by the timeout and was acknowledged; its container runs
C28_Witness ==
    /\ worker = Idle
    /\ unacked = NoMessage
    /\ state[1] = "error"
    /\ Events(1) # <<>>
    /\ Events(1)[Len(Events(1))] = Error(<<"timeout">>)
    /\ \E n \in Names : containers[n].status = "running" /\ containers[n].by = 1

\* C29: when the worker is about to append the complete event, the events of
\* the delivery show the container observed running and the HTTP check
\* answered 200: the event before the SSL notice is "N8N respondendo via HTTP"
C29_CompleteOnlyAfterHttpReady ==
    worker.pc = "push_complete" =>
        LET evs == Events(worker.job.job_id)
        IN /\ Len(evs) >= 3
           /\ evs[Len(evs)] = Info(<<"ssl">>)
           /\ evs[Len(evs) - 1] = Info(<<"http_ok">>)
           /\ \E i \in 1..Len(evs) : evs[i] = Info(<<"checking", worker.i + 1>>)

\* C30: the statements of lifespan run in the order setup_logging,
\* bootstrap_infra, sync_instance_env_vars, start_worker, start_cleanup, the
\* yield at which requests are served, stop_cleanup, stop_worker,
\* close_rabbitmq, close_client; the worker moves and takes a delivery only
\* after the reconcile, the sweeper ticks only after the reconcile, and a
\* route answers only after the five start-up calls
C30_LifespanOrder ==
    [][LET order == << "setup_logging", "bootstrap_infra", "sync_instance_env_vars",
                       "start_worker", "start_cleanup", "yield", "stop_cleanup",
                       "stop_worker", "close_rabbitmq", "close_client" >>
           did(k) == Len(lifespan) >= k
       IN /\ Len(lifespan') <= Len(order)
          /\ lifespan' = SubSeq(order, 1, Len(lifespan'))
          /\ (worker' # worker \/ (unacked' # unacked /\ unacked' # NoMessage)) => did(4)
          /\ (resp' # resp /\ resp'.op = "run_cleanup") => did(5)
          /\ (resp' # resp /\ resp'.op = "get_capacity") =>
                 (did(6) /\ ~did(7))
          /\ (resp' # resp /\ resp'.op = "sync_instance_env_vars") =>
                 (Len(lifespan) = 2 /\ worker = Idle /\ unacked = NoMessage)
      ]_vars

\* a process that went through start-up and shutdown: the reconcile rebuilt
\* the instance it found for the new time zone, the pending job of the queue
\* was taken up by the worker afterwards and ended, the sweeper ticked
C30_Witness ==
    /\ Len(lifespan) = 10
    /\ config.DEFAULT_TIMEZONE = "UTC"
    /\ containers[<<"a", "1">>].status # "absent"
    /\ containers[<<"a", "1">>].env.GENERIC_TIMEZONE = "UTC"
    /\ TerminalCount(1) >= 1
    /\ resp.op = "run_cleanup"


\* C31: a job the worker has in hand when the stop signal arrives reaches its
\* terminal event and its ack before the runtime client is closed: once
\* lifespan has called close_client the worker holds no job
C31_JobEndsBeforeClose ==
    Called("close_client") => worker.pc \in { "idle", "exited" }

C33_BootstrapSwallows ==
    Called("bootstrap_infra") =>
        /\ infra.ran = << "network", "traefik", "redis", "rabbitmq", "parser-api",
                          "fallback", "image-pull" >>
        /\ ~infra.raised
        /\ \A k \in 1..Len(infra.logged) : infra.logged[k] \in BootstrapLabels
        /\ ~Called("yield") => ENABLED lifespan_boot

\* the broker and the pre-pull failed at start-up, and the server answers
C33_Witness ==
    /\ infra.logged = << "rabbitmq", "image-pull" >>
    /\ Called("yield")
    /\ resp.op = "get_capacity"

\* C34: publish_job calls serialize: no two threads are inside basic_publish
\* at the same time, and a thread inside basic_publish uses the channel of
\* the current connection, which is open
C34_PublishesSerialize ==
    /\ Cardinality({ t \in PublishThreads : publisher.pc[t] = "basic_publish" }) <= 1
    /\ \A t \in PublishThreads :
           publisher.pc[t] = "basic_publish" =>
               /\ publisher.ch[t] \notin publisher.closed
               /\ publisher.ch[t] = publisher.connection

\* C35: a response of GET /job/{job_id}/events that carries a terminal event
\* carries the state of that event: complete with a complete event, error
\* with an error event
C35_TerminalEventWithTerminalState ==
    [][(poll.pc = "read" /\ poll'.pc = "idle") =>
          \A k \in (Len(poll.got) + 1)..Len(poll'.got) :
              IsTerminal(poll'.got[k]) => poll.st = poll'.got[k].status
      ]_vars

\* C36: the managed containers with status running never number more than
\* max_instances of the host
C36_RunningWithinCapacity ==
    active_count(containers) <= calculate_max_instances(memTotal, containers).max_instances

\* C37: every job whose state is pending has its message in the queue or
\* delivered to the worker and not yet acknowledged
C37_PendingIsQueued ==
    \A j \in JobIds : state[j] = "pending" => Published(j)

\* C38: an update-version or a reconcile, failed or not, leaves every instance
\* that had a container with a container, of the same encryption key and the
\* same label app.created_at
C38_RebuildAllOrNothing ==
    [][(resp' # resp /\ resp'.op \in { "update_version", "sync_instance_env_vars" }) =>
          \A n \in Names :
              containers[n].status # "absent" =>
                  /\ containers'[n].status # "absent"
                  /\ extract_encryption_key(containers'[n]) = extract_encryption_key(containers[n])
                  /\ containers'[n].created_at = containers[n].created_at
      ]_vars

\* C39: GET /cleanup-preview agrees with the sweeper: will_be_deleted holds of
\* exactly the listed instances whose age is known and at least the
\* configured maximal age, and days_remaining is the rest of that age, not
\* below 0
C39_PreviewAgreesWithSweeper ==
    resp.op = "cleanup_preview" =>
        \A n \in DOMAIN resp.target :
            LET age == resp.target[n].age_days
            IN /\ resp.target[n].will_be_deleted <=> (age # None /\ age >= MaxAgeDays)
               /\ age # None => resp.target[n].days_remaining = Max(0, MaxAgeDays - age)

====
